---------------------------- MODULE Spec2Model ----------------------------
(***************************************************************************)
(* Model of the test-result and coverage-report pipeline of the            *)
(* vscode-dotnet extension: TestRunner (src/unnamed/part_001) and          *)
(* CoverageProvider (src/src/runDebugManager.ts).                          *)
(*                                                                         *)
(* Representation.                                                         *)
(*  - A text is held as the sequence of its lines, i.e. as the value of    *)
(*    text.split('\n'); that sequence is never empty.                      *)
(*  - A line is a sequence of tokens.  A token is a maximal piece of the   *)
(*    line that the code's patterns treat as a unit: a literal the code    *)
(*    searches for ("Passed!", "Test Name:", "SF:"...), a white-space      *)
(*    character, a numeral, or any other word.  "CHECK" and "CROSS" stand  *)
(*    for the glyphs U+2713 and U+2717.                                    *)
(*  - An optional value (undefined / null in the code) is a sequence of    *)
(*    length 0 or 1.                                                       *)
(*  - A JavaScript Map is the sequence of its entries in insertion order.  *)
(*  - A JavaScript number that need not be an integer is an exact          *)
(*    fraction [n, d] in lowest terms, or NaN; rounding of IEEE doubles    *)
(*    is not modelled.                                                     *)
(***************************************************************************)
EXTENDS Integers, Sequences, FiniteSets, TLC

VARIABLES
    \* TestRunner.parseTestResults: argument and locals (part_001:106-181)
    output, i, currentTest, results, pcParse,
    \* the first completed parse, remembered for comparison, and the text of
    \* the call before the present one
    memoOutput, memoResults, prevOutput,
    \* TestRunner.testResults (part_001:14)
    testResults,
    \* CoverageProvider.parseLcovReport: the file's lines, the loop's position and
    \* the locals (runDebugManager.ts:951-985)
    lcovContent, lcovPos, currentFile, currentCoverage, pcLcov,
    \* the coverage store as it was when the present report's parse began
    priorCoverage,
    \* CoverageProvider.coverageData (runDebugManager.ts:738)
    coverageData,
    \* the arguments of the latest parseCoverageFile call: the configured
    \* format and the report file (runDebugManager.ts:853)
    parsedFormat, parsedFile,
    \* ProjectDetector.projects (part_002)
    projects,
    \* the runAllTests invocations (part_001:45-85), the latest step of one of
    \* them, the summary the status bar's subscriber read last
    \* (extension.ts:155-159) and StatusBar.testStatusButton.text (part_003:98)
    testRuns, testEvent, notifiedSummary, testStatusButton,
    \* for each project path, the invocation whose run was stored last and
    \* the output of that run
    lastStored,
    \* ConfigManager: dotnet.coverage.enabled and dotnet.coverage.format
    coverageEnabled, coverageFormat,
    \* the runTestsWithCoverage invocations (runDebugManager.ts:767-816), the
    \* invocation whose code is executing, the latest step, the number of
    \* coverage-changed notifications fired so far, and
    \* StatusBar.coverageButton.text (part_003:105)
    covRuns, running, covEvent, coverageNotifications, coverageButton,
    \* vscode.window.activeTextEditor (its document's path and number of
    \* lines) and the line decorations set on it (runDebugManager.ts:986-1015)
    activeEditor, editorDecorations,
    \* the latest return of dotnet test to collectCoverage: the invocation,
    \* the disk it found and the report file parseCoverageReport took from it
    collected,
    \* ProjectDetector.currentProject (part_002:112) and the profile names of
    \* its Properties/launchSettings.json (launchProfileManager.ts:40-47)
    currentProject, launchSettings,
    \* the built assemblies on the disk: bin/<config>/<framework>/<name>.dll
    builtFiles,
    \* Toolbar.currentBuildConfig and Toolbar.currentLaunchProfile
    \* (extension.ts:268-270), RunDebugManager.buildConfig (runDebugManager.ts:7)
    currentBuildConfig, currentLaunchProfile, buildConfig,
    \* the latest runProject or debugProject invocation and the number of
    \* invocations so far
    launch, launchCount,
    \* the project files of the workspace folder on the disk, the setting
    \* dotnet.autoDetectProjects (configManager.ts:16) and
    \* vscode.workspace.workspaceFolders
    workspace, autoDetectProjects, workspaceFolders,
    \* the detectProjects invocations (part_002:22-106), the items of the
    \* quick pick selectProject is showing (part_002:127-136) and the list
    \* onProjectsChanged fired last (part_002:105)
    detects, quickPick, projectsChanged

parseVars == <<output, i, currentTest, results, pcParse, memoOutput, memoResults, prevOutput>>
lcovVars == <<lcovContent, lcovPos, currentFile, currentCoverage, pcLcov>>
fileVars == <<parsedFormat, parsedFile>>
testRunVars == <<testRuns, testEvent, notifiedSummary, testStatusButton, lastStored>>
covRunVars == <<coverageEnabled, coverageFormat, covRuns, running, covEvent,
                coverageNotifications, coverageButton, activeEditor, editorDecorations,
                collected>>
launchVars == <<currentProject, launchSettings, builtFiles, currentBuildConfig,
                currentLaunchProfile, buildConfig, launch, launchCount>>
detectVars == <<workspace, autoDetectProjects, workspaceFolders, detects, quickPick,
                projectsChanged>>
projectVars == <<projects, launchVars, detectVars>>
hostVars == <<fileVars, projectVars, testRunVars, covRunVars>>
vars == <<parseVars, testResults, lcovVars, priorCoverage, coverageData, hostVars>>

---------------------------------------------------------------------------
(* Optional values *)

None == <<>>

Some(x) == <<x>>

IsSome(o) == Len(o) > 0

Val(o) == o[1]

---------------------------------------------------------------------------
(* JavaScript Map: entries <<key, value>> in insertion order *)

MapHas(m, k) == \E e \in 1..Len(m) : m[e][1] = k

MapIndex(m, k) == CHOOSE e \in 1..Len(m) : m[e][1] = k

MapGet(m, k) == IF MapHas(m, k) THEN Some(m[MapIndex(m, k)][2]) ELSE None

MapSetAppendAlways(m, k, v) == Append(m, <<k, v>>)

MapSet(m, k, v) ==
    IF MapHas(m, k)
    THEN [m EXCEPT ![MapIndex(m, k)] = <<k, v>>]
    ELSE Append(m, <<k, v>>)

MapKeys(m) == {m[e][1] : e \in 1..Len(m)}

MapValues(m) == [e \in 1..Len(m) |-> m[e][2]]

---------------------------------------------------------------------------
(* Strings as token sequences *)

IsSpace(tok) == tok \in {" ", "\t", "\r"}

\* what the regular expression's "." matches: anything but a line terminator
IsDot(tok) == tok \notin {"\r", "\n"}

RECURSIVE LTrim(_)
LTrim(s) == IF s = <<>> \/ ~IsSpace(Head(s)) THEN s ELSE LTrim(Tail(s))

RECURSIVE RTrim(_)
RTrim(s) ==
    IF s = <<>> \/ ~IsSpace(s[Len(s)]) THEN s ELSE RTrim(SubSeq(s, 1, Len(s) - 1))

Trim(s) == RTrim(LTrim(s))

Includes(line, word) == \E k \in 1..Len(line) : line[k] = word

\* the /i flag on the label patterns
FoldCase(tok) ==
    CASE tok \in {"Test Name:", "TEST NAME:", "test name:"} -> "test name:"
      [] tok \in {"Test Method:", "TEST METHOD:", "test method:"} -> "test method:"
      [] tok \in {"Duration:", "DURATION:", "duration:"} -> "duration:"
      [] tok \in {"Error Message:", "ERROR MESSAGE:", "error message:"} -> "error message:"
      [] tok \in {"Stack Trace:", "STACK TRACE:", "stack trace:"} -> "stack trace:"
      [] OTHER -> tok

\* /^\s*<glyph>\s+/
MatchesGlyph(line, glyph) ==
    LET r == LTrim(line)
    IN  Len(r) >= 2 /\ r[1] = glyph /\ IsSpace(r[2])

\* /^\s*<label>/i : the label follows optional leading white space
MatchesLabel(line, label) ==
    LET r == LTrim(line)
    IN  Len(r) >= 1 /\ FoldCase(r[1]) = label

\* what follows the label
AfterLabel(line) == Tail(LTrim(line))

\* /^\s*<label>\s*(.+)$/i : after the label, optional white space and then at
\* least one character, none of them a line terminator, up to the end
MatchesLabelValue(line, label) ==
    /\ MatchesLabel(line, label)
    /\ LET rest == AfterLabel(line)
       IN  \E k \in 0..(Len(rest) - 1) :
               /\ \A j \in 1..k : IsSpace(rest[j])
               /\ \A j \in (k + 1)..Len(rest) : IsDot(rest[j])

\* match[1].trim()
LabelValue(line) == Trim(AfterLabel(line))

---------------------------------------------------------------------------
(* TestRunner.parseTestResults *)

\* { name: ... } : every other field undefined
NewTest(name) ==
    [name |-> Some(name), outcome |-> None, duration |-> None,
     errorMessage |-> None, stackTrace |-> None]

NameUnsetAlways(t) == TRUE

\* !currentTest.name
NameUnset(t) == ~IsSome(t.name) \/ Val(t.name) = <<>>

\* numerals of the input alphabet: parseFloat
NumVal(tok) ==
    CASE tok = "0" -> 0
      [] tok = "2" -> 2
      [] tok = "12" -> 12
      [] OTHER -> 0

IsNumeral(tok) == tok \in {"0", "2", "12"}

\* the alternation (ms|s) at the start of a token: "sec" begins with "s"
UnitOf(tok) ==
    CASE tok \in {"ms", "msec"} -> "ms"
      [] tok \in {"s", "sec", "seconds"} -> "s"
      [] OTHER -> ""

\* durationStr.match(/(\d+(?:\.\d+)?)\s*(ms|s)/): positions n where a numeral is
\* followed, after optional white space, by a unit
RECURSIVE UnitAfter(_, _)
UnitAfter(s, n) ==
    IF n > Len(s) THEN ""
    ELSE IF IsSpace(s[n]) THEN UnitAfter(s, n + 1)
    ELSE UnitOf(s[n])

DurationMatches(s) == {n \in 1..Len(s) : IsNumeral(s[n]) /\ UnitAfter(s, n + 1) # ""}

Min(S) == CHOOSE x \in S : \A y \in S : x <= y

DurationOf(s) ==
    LET n == Min(DurationMatches(s))
        value == NumVal(s[n])
    IN  IF UnitAfter(s, n + 1) = "s" THEN value * 1000 ELSE value

StackTraceLimit == 20

\* for (let j = i + 1; j < lines.length && j < i + 20; j++) : the lines after
\* line n (1-based) up to the first blank one
RECURSIVE StackTraceFrom(_, _, _)
StackTraceFrom(lines, n, j) ==
    IF j <= Len(lines) /\ j < n + StackTraceLimit /\ Trim(lines[j]) # <<>>
    THEN <<lines[j]>> \o StackTraceFrom(lines, n, j + 1)
    ELSE <<>>

IsPassedLineAlone(line) == line = <<"Passed!">> \/ MatchesGlyph(line, "CHECK")

IsPassedLine(line) == Includes(line, "Passed!") \/ MatchesGlyph(line, "CHECK")

IsFailedLine(line) == Includes(line, "Failed!") \/ MatchesGlyph(line, "CROSS")

IsSkippedLine(line) == Includes(line, "Skipped")

SealWhenEmpty(st, outcome) ==
    [currentTest |-> None,
     results |-> Append(st.results,
                        [(IF IsSome(st.currentTest) THEN Val(st.currentTest)
                          ELSE NewTest(<<>>)) EXCEPT !.outcome = Some(outcome)])]

SealKeepOpen(st, outcome) ==
    IF IsSome(st.currentTest)
    THEN [st EXCEPT !.results =
              Append(@, [Val(st.currentTest) EXCEPT !.outcome = Some(outcome)])]
    ELSE st

\* currentTest.outcome = ...; results.push(currentTest); currentTest = null
Seal(st, outcome) ==
    IF IsSome(st.currentTest)
    THEN [currentTest |-> None,
          results |-> Append(st.results,
                             [Val(st.currentTest) EXCEPT !.outcome = Some(outcome)])]
    ELSE st

\* one iteration of the loop over the lines: line n of lines, scanning state st
ScanLine(st, lines, n) ==
    LET line == lines[n]
        cur == st.currentTest
    IN  IF IsPassedLine(line) THEN Seal(st, "Passed")
        ELSE IF IsFailedLine(line) THEN Seal(st, "Failed")
        ELSE IF IsSkippedLine(line) THEN Seal(st, "Skipped")
        ELSE IF MatchesLabelValue(line, "test name:")
        THEN [st EXCEPT !.currentTest = Some(NewTest(LabelValue(line)))]
        ELSE IF MatchesLabelValue(line, "test method:")
        THEN IF IsSome(cur) /\ NameUnset(Val(cur))
             THEN [st EXCEPT !.currentTest =
                       Some([Val(cur) EXCEPT !.name = Some(LabelValue(line))])]
             ELSE st
        ELSE IF MatchesLabelValue(line, "duration:")
        THEN IF IsSome(cur) /\ DurationMatches(LabelValue(line)) # {}
             THEN [st EXCEPT !.currentTest =
                       Some([Val(cur) EXCEPT !.duration = Some(DurationOf(LabelValue(line)))])]
             ELSE st
        ELSE IF MatchesLabelValue(line, "error message:")
        THEN IF IsSome(cur)
             THEN [st EXCEPT !.currentTest =
                       Some([Val(cur) EXCEPT !.errorMessage = Some(LabelValue(line))])]
             ELSE st
        ELSE IF MatchesLabel(line, "stack trace:")
        THEN IF IsSome(cur)
             THEN [st EXCEPT !.currentTest =
                       Some([Val(cur) EXCEPT !.stackTrace =
                                 Some(StackTraceFrom(lines, n, n + 1))])]
             ELSE st
        ELSE st

ScanInitKeepsCurrent == [currentTest |-> currentTest, results |-> <<>>]

\* const results = []; let currentTest = null
ScanInit == [currentTest |-> None, results |-> <<>>]

RECURSIVE ScanFrom(_, _, _)
ScanFrom(st, lines, n) ==
    IF n > Len(lines) THEN st ELSE ScanFrom(ScanLine(st, lines, n), lines, n + 1)

parseTestResults(lines) == ScanFrom(ScanInit, lines, 1).results

---------------------------------------------------------------------------
(* Numbers: exact fractions, NaN and the infinities of a division by zero *)

RECURSIVE GCD(_, _)
GCD(a, b) == IF b = 0 THEN a ELSE GCD(b, a % b)

Abs(x) == IF x < 0 THEN -x ELSE x

NaN == [n |-> 0, d |-> 0]

\* the fraction n/d in lowest terms, d > 0; n/0 is NaN or an infinity
Rat(n, d) ==
    IF d = 0 THEN [n |-> IF n > 0 THEN 1 ELSE IF n < 0 THEN -1 ELSE 0, d |-> 0]
    ELSE LET g == GCD(Abs(n), Abs(d))
             sgn == IF d < 0 THEN -1 ELSE 1
         IN  [n |-> sgn * (n \div g), d |-> sgn * (d \div g)]

Num(k) == Rat(k, 1)

IsNaN(x) == x.d = 0 /\ x.n = 0

RatAdd(x, y) ==
    IF x.d = 0 \/ y.d = 0
    THEN (IF IsNaN(x) \/ IsNaN(y) \/ (x.d = 0 /\ y.d = 0 /\ x.n # y.n) THEN NaN
          ELSE IF x.d = 0 THEN x ELSE y)
    ELSE Rat(x.n * y.d + y.n * x.d, x.d * y.d)

RatMul(x, y) ==
    IF IsNaN(x) \/ IsNaN(y) THEN NaN ELSE Rat(x.n * y.n, x.d * y.d)

RatDiv(x, y) ==
    IF IsNaN(x) \/ IsNaN(y) \/ (x.d = 0 /\ y.d = 0) THEN NaN
    ELSE Rat(x.n * y.d, x.d * y.n)

\* x > 0
RatPositive(x) == x.n > 0

---------------------------------------------------------------------------
(* CoverageProvider.parseLcovReport *)

\* parseInt of a numeral of the input alphabet
IntVal(tok) ==
    CASE tok = "0" -> 0
      [] tok = "1" -> 1
      [] tok = "2" -> 2
      [] tok = "3" -> 3
      [] tok = "5" -> 5
      [] tok = "7" -> 7
      [] tok = "12" -> 12
      [] OTHER -> 0

\* \d+
IsDigits(tok) == tok \in {"0", "1", "2", "3", "5", "7", "12"}

\* line.startsWith(prefix)
StartsWith(line, prefix) == Len(line) >= 1 /\ line[1] = prefix

\* line.match(/^DA:(\d+),(\d+)$/)
MatchesDA(line) ==
    /\ Len(line) = 4
    /\ line[1] = "DA:"
    /\ IsDigits(line[2])
    /\ line[3] = ","
    /\ IsDigits(line[4])

CountCovered(lines) == Cardinality({k \in 1..Len(lines) : lines[k].covered})

LcovPercentageUnguarded(lines) ==
    RatMul(RatDiv(Num(CountCovered(lines)), Num(Len(lines))), Num(100))

\* if (lines.length > 0) coverage = (covered / lines.length) * 100, else the 0
\* the record was opened with
LcovPercentage(lines) ==
    IF Len(lines) > 0
    THEN RatMul(RatDiv(Num(CountCovered(lines)), Num(Len(lines))), Num(100))
    ELSE Num(0)

LcovOpenStoringPrevious(st, line) ==
    [currentFile |-> Tail(line),
     currentCoverage |-> Some([filePath |-> Tail(line), coverage |-> Num(0), lines |-> <<>>]),
     store |-> IF IsSome(st.currentCoverage)
               THEN MapSet(st.store, st.currentFile,
                           [Val(st.currentCoverage) EXCEPT
                                !.coverage = LcovPercentage(Val(st.currentCoverage).lines)])
               ELSE st.store]

\* an "SF:" line: currentFile = line.substring(3); currentCoverage = a new record
LcovOpen(st, line) ==
    [currentFile |-> Tail(line),
     currentCoverage |-> Some([filePath |-> Tail(line), coverage |-> Num(0), lines |-> <<>>]),
     store |-> st.store]

\* one iteration of the loop over the lines; st holds the locals and the store
LcovLine(st, line) ==
    IF StartsWith(line, "SF:")
    THEN LcovOpen(st, line)
    ELSE IF StartsWith(line, "DA:") /\ IsSome(st.currentCoverage)
    THEN IF MatchesDA(line)
         THEN [st EXCEPT !.currentCoverage =
                   Some([Val(@) EXCEPT !.lines =
                             Append(@, [line |-> IntVal(line[2]),
                                        covered |-> IntVal(line[4]) > 0])])]
         ELSE st
    ELSE IF line = <<"end_of_record">> /\ IsSome(st.currentCoverage)
    THEN [currentFile |-> st.currentFile,
          currentCoverage |-> None,
          store |-> MapSet(st.store, st.currentFile,
                           [Val(st.currentCoverage) EXCEPT
                                !.coverage = LcovPercentage(Val(st.currentCoverage).lines)])]
    ELSE st

\* let currentFile = ''; let currentCoverage = null
LcovInit(store) == [currentFile |-> <<>>, currentCoverage |-> None, store |-> store]

RECURSIVE LcovFrom(_, _, _)
LcovFrom(st, lines, n) ==
    IF n > Len(lines) THEN st ELSE LcovFrom(LcovLine(st, lines[n]), lines, n + 1)

\* the store after parseLcovReport of a file with these lines
parseLcovReport(store, lines) == LcovFrom(LcovInit(store), lines, 1).store

---------------------------------------------------------------------------
(* CoverageProvider: the Cobertura and JSON parsers, the dispatch, the mean *)
(*                                                                         *)
(* A report file's content is [fmt, xml, json, lcov]: fmt says what the    *)
(* text is ("xml", "json", "lcov" or "text" for anything else) and the     *)
(* field of that name holds (the other two are empty)                      *)
(*  - xml:  what xml2js makes of it: the packages element, absent (None)   *)
(*    or present with its package elements; a package's classes element,   *)
(*    absent or with its class elements; a class's attributes, absent or   *)
(*    [filename, lineRate, line_rate] (the attributes lineRate and         *)
(*    line-rate), and its line elements [number, hits];                    *)
(*  - json: what JSON.parse makes of it: the modules, absent or a list     *)
(*    of modules, each null (None) or with its documents [path,            *)
(*    linecoverage, lines], the lines in the order Object.entries gives    *)
(*    them (ascending line number);                                        *)
(*  - lcov: the lines of the text.                                         *)

\* parseFloat of a numeral of the input alphabet
FloatVal(tok) ==
    CASE tok = "0" -> Num(0)
      [] tok = "1" -> Num(1)
      [] tok = "0.5" -> Rat(1, 2)
      [] tok = "0.75" -> Rat(3, 4)
      [] OTHER -> NaN

\* x || dflt for an attribute that may be absent
OrElse(o, dflt) == IF IsSome(o) THEN Val(o) ELSE dflt

\* this.coverageData.set(fileName, coverageData), once per record, in order
RECURSIVE UpsertAll(_, _)
UpsertAll(store, recs) ==
    IF recs = <<>> THEN store
    ELSE UpsertAll(MapSet(store, Head(recs).filePath, Head(recs)), Tail(recs))

\* the record built from one class element
CoberturaClassRecord(cls) ==
    [filePath |-> Val(cls.attrs).filename,
     coverage |-> RatMul(FloatVal(OrElse(Val(cls.attrs).lineRate, "0")), Num(100)),
     lines |-> [k \in 1..Len(cls.lines) |->
                   [line |-> IntVal(cls.lines[k].number),
                    covered |-> IntVal(OrElse(cls.lines[k].hits, "0")) > 0]]]

\* the loop over the classes of one package; acc = [records, threw]; a class
\* without attributes makes cls.$.filename throw
RECURSIVE CoberturaClasses(_, _, _)
CoberturaClasses(acc, classes, n) ==
    IF n > Len(classes) THEN acc
    ELSE IF ~IsSome(classes[n].attrs) THEN [acc EXCEPT !.threw = TRUE]
    ELSE CoberturaClasses(
             [acc EXCEPT !.records = Append(@, CoberturaClassRecord(classes[n]))],
             classes, n + 1)

\* the loop over the packages
RECURSIVE CoberturaPackages(_, _, _)
CoberturaPackages(acc, pkgs, n) ==
    IF n > Len(pkgs) \/ acc.threw THEN acc
    ELSE CoberturaPackages(
             IF IsSome(pkgs[n].classes)
             THEN CoberturaClasses(acc, Val(pkgs[n].classes), 1)
             ELSE acc,
             pkgs, n + 1)

\* the records parseCoberturaReport upserts, in order, and whether it throws:
\* the XML parser rejects what is no XML; a packages element without package
\* makes pkg.classes throw
CoberturaUpserts(content) ==
    IF content.fmt # "xml" THEN [records |-> <<>>, threw |-> TRUE]
    ELSE IF ~IsSome(content.xml) THEN [records |-> <<>>, threw |-> FALSE]
    ELSE IF Val(content.xml) = <<>> THEN [records |-> <<>>, threw |-> TRUE]
    ELSE CoberturaPackages([records |-> <<>>, threw |-> FALSE], Val(content.xml), 1)

parseCoberturaReportAtomic(store, content) ==
    [store |-> IF CoberturaUpserts(content).threw THEN store
               ELSE UpsertAll(store, CoberturaUpserts(content).records),
     threw |-> CoberturaUpserts(content).threw]

parseCoberturaReport(store, content) ==
    [store |-> UpsertAll(store, CoberturaUpserts(content).records),
     threw |-> CoberturaUpserts(content).threw]

\* the record built from one document of a module
JsonDocumentRecord(doc) ==
    [filePath |-> doc.path,
     coverage |-> RatMul(OrElse(doc.linecoverage, Num(0)), Num(100)),
     lines |-> [k \in 1..Len(doc.lines) |->
                   [line |-> IntVal(doc.lines[k].number),
                    covered |-> OrElse(doc.lines[k].usages, 0) > 0]]]

\* the loop over the modules; a null module makes module.documents throw
RECURSIVE JsonModules(_, _, _)
JsonModules(acc, modules, n) ==
    IF n > Len(modules) THEN acc
    ELSE IF ~IsSome(modules[n]) THEN [acc EXCEPT !.threw = TRUE]
    ELSE JsonModules(
             [acc EXCEPT !.records =
                  @ \o [k \in 1..Len(Val(modules[n])) |->
                           JsonDocumentRecord(Val(modules[n])[k])]],
             modules, n + 1)

\* the records parseJsonReport upserts, in order, and whether it throws:
\* JSON.parse rejects what is no JSON
JsonUpserts(content) ==
    IF content.fmt # "json" THEN [records |-> <<>>, threw |-> TRUE]
    ELSE IF ~IsSome(content.json) THEN [records |-> <<>>, threw |-> FALSE]
    ELSE JsonModules([records |-> <<>>, threw |-> FALSE], Val(content.json), 1)

parseJsonReport(store, content) ==
    [store |-> UpsertAll(store, JsonUpserts(content).records),
     threw |-> JsonUpserts(content).threw]

\* parseLcovReport of a file: a text that is no LCOV text has no SF: line
parseLcovFile(store, content) ==
    [store |-> IF content.fmt = "lcov" THEN parseLcovReport(store, content.lcov) ELSE store,
     threw |-> FALSE]

\* filePath.endsWith(ext), for the report file names
EndsWith(name, ext) ==
    \/ ext = ".xml" /\ name = "coverage.cobertura.xml"
    \/ ext = ".json" /\ name = "coverage.json"
    \/ ext = ".lcov" /\ name = "coverage.lcov"

\* the parser parseCoverageFile hands the file to
ParserOf(format, name) ==
    IF format = "cobertura" \/ EndsWith(name, ".xml") THEN "cobertura"
    ELSE IF format = "json" \/ EndsWith(name, ".json") THEN "json"
    ELSE IF format = "lcov" \/ EndsWith(name, ".lcov") THEN "lcov"
    ELSE "none"

\* parseCoverageFile: the parser's effect on the store; what it throws is caught
\* and logged
parseCoverageFile(store, name, format, content) ==
    LET parser == ParserOf(format, name)
        res == CASE parser = "cobertura" -> parseCoberturaReport(store, content)
                 [] parser = "json" -> parseJsonReport(store, content)
                 [] parser = "lcov" -> parseLcovFile(store, content)
                 [] OTHER -> [store |-> store, threw |-> FALSE]
    IN  [store |-> res.store, logged |-> res.threw]

RECURSIVE SumCoverage(_, _)
SumCoverage(store, n) ==
    IF n > Len(store) THEN Num(0)
    ELSE RatAdd(store[n][2].coverage, SumCoverage(store, n + 1))

RECURSIVE SumWeighted(_, _)
SumWeighted(store, n) ==
    IF n > Len(store) THEN Num(0)
    ELSE RatAdd(RatMul(store[n][2].coverage, Num(Len(store[n][2].lines))),
                SumWeighted(store, n + 1))

RECURSIVE SumLines(_, _)
SumLines(store, n) ==
    IF n > Len(store) THEN 0 ELSE Len(store[n][2].lines) + SumLines(store, n + 1)

getOverallCoverageByLines(store) ==
    IF Len(store) = 0 \/ SumLines(store, 1) = 0 THEN Num(0)
    ELSE RatDiv(SumWeighted(store, 1), Num(SumLines(store, 1)))

\* totalCoverage / this.coverageData.size, 0 for an empty store
getOverallCoverage(store) ==
    IF Len(store) = 0 THEN Num(0)
    ELSE RatDiv(SumCoverage(store, 1), Num(Len(store)))

---------------------------------------------------------------------------
(* Inputs of the test-output parser *)

MaxLines == 3

CoreLines ==
    { <<"Passed!">>,
      <<"Failed!">>,
      <<"Skipped">>,
      <<"Failed!", " ", "Skipped">>,
      <<" ", "CHECK", " ", "A">>,
      <<"CROSS", " ", "B">>,
      <<"Test Name:", " ", "A">>,
      <<"Test Name:", " ", "B">>,
      <<"Test Name:", " ">>,
      <<"Test Method:", " ", "M">>,
      <<"Duration:", " ", "12", "ms">>,
      <<"Error Message:", " ", "E">>,
      <<"Stack Trace:">>,
      <<" ", "at", " ", "F">>,
      <<>> }

SeqsUpTo(S, n) == UNION {[1..m -> S] : m \in 1..n}

\* spec.md section 8, scenario A
ScenarioA ==
    << <<"Test Name:", " ", "Addition_ReturnsSum">>,
       <<"Duration:", " ", "12", "ms">>,
       <<"Passed!">>,
       <<"Test Name:", " ", "Division_ByZero_Throws">>,
       <<"Error Message:", " ", "DivideByZeroException">>,
       <<"Failed!">> >>

ParseInputs == SeqsUpTo(CoreLines, MaxLines) \cup {ScenarioA}

\* texts parsed between two parses of the remembered text
BetweenInputs ==
    { << <<"Test Name:", " ", "B">> >>,
      << <<"Test Name:", " ", "A">>, <<"Failed!">> >> }

\* the project whose run is parsed
ParseProject == "t1"

---------------------------------------------------------------------------
(* SpecParse: parseTestResults one line at a time, called repeatedly *)

LcovIdle ==
    /\ lcovContent = <<>>
    /\ lcovPos = 1
    /\ currentFile = <<>>
    /\ currentCoverage = None
    /\ pcLcov = "idle"

CoverageEmpty == coverageData = <<>> /\ priorCoverage = <<>>

\* no report file handed to parseCoverageFile yet
FileIdle == parsedFormat = None /\ parsedFile = None

\* no runAllTests invocation yet, the subscriber not yet notified
TestRunsIdle ==
    /\ testRuns = <<>>
    /\ testEvent = None
    /\ notifiedSummary = None
    /\ testStatusButton = None
    /\ lastStored = <<>>

\* no runTestsWithCoverage invocation yet
CovRunsIdle ==
    /\ covRuns = <<>>
    /\ running = None
    /\ covEvent = None
    /\ coverageNotifications = 0
    /\ coverageButton = None
    /\ activeEditor = None
    /\ editorDecorations = None
    /\ collected = None

\* the configuration's defaults (configManager.ts:20-26)
ConfigDefault == coverageEnabled = TRUE /\ coverageFormat = "cobertura"

\* no project selected, the toolbar and the manager as constructed, nothing
\* built, nothing run or debugged
LaunchIdle ==
    /\ currentProject = None
    /\ launchSettings = <<>>
    /\ builtFiles = {}
    /\ currentBuildConfig = "Debug"
    /\ currentLaunchProfile = None
    /\ buildConfig = "Debug"
    /\ launch = None
    /\ launchCount = 0

\* no project file and no folder open, no detection begun, no quick pick
\* shown
DetectIdle ==
    /\ workspace = {}
    /\ autoDetectProjects = TRUE
    /\ workspaceFolders = <<>>
    /\ detects = <<>>
    /\ quickPick = None
    /\ projectsChanged = None

\* nothing detected, nothing run
HostIdle ==
    /\ FileIdle
    /\ projects = <<>>
    /\ LaunchIdle
    /\ DetectIdle
    /\ TestRunsIdle
    /\ ConfigDefault
    /\ CovRunsIdle

ParserIdle ==
    /\ output = <<>>
    /\ i = 1
    /\ currentTest = None
    /\ results = <<>>
    /\ pcParse = "idle"
    /\ memoOutput = None
    /\ memoResults = None
    /\ prevOutput = None

\* const results = this.parseTestResults(output): entry, locals initialised
ParseCall(text) ==
    /\ pcParse \in {"idle", "returned"}
    /\ output' = text
    /\ i' = 1
    /\ currentTest' = ScanInit.currentTest
    /\ results' = ScanInit.results
    /\ pcParse' = "scan"
    /\ prevOutput' = IF pcParse = "returned" THEN Some(output) ELSE None
    /\ UNCHANGED <<memoOutput, memoResults, testResults>>
    /\ UNCHANGED <<lcovVars, priorCoverage, coverageData, hostVars>>

\* one iteration of for (let i = 0; i < lines.length; i++)
ScanStep ==
    /\ pcParse = "scan"
    /\ i <= Len(output)
    /\ LET st == ScanLine([currentTest |-> currentTest, results |-> results], output, i)
       IN  /\ currentTest' = st.currentTest
           /\ results' = st.results
    /\ i' = i + 1
    /\ UNCHANGED <<output, pcParse, memoOutput, memoResults, prevOutput, testResults>>
    /\ UNCHANGED <<lcovVars, priorCoverage, coverageData, hostVars>>

ParseResultFlushOpen(st) ==
    IF IsSome(st.currentTest)
    THEN Append(st.results, [Val(st.currentTest) EXCEPT !.outcome = Some("Failed")])
    ELSE st.results

\* return results
ParseResult(st) == st.results

\* the loop has ended: return results; this.testResults.set(projectPath, results)
ParseReturn ==
    /\ pcParse = "scan"
    /\ i > Len(output)
    /\ results' = ParseResult([currentTest |-> currentTest, results |-> results])
    /\ testResults' = MapSet(testResults, ParseProject, results')
    /\ pcParse' = "returned"
    /\ IF IsSome(memoOutput)
       THEN UNCHANGED <<memoOutput, memoResults>>
       ELSE memoOutput' = Some(output) /\ memoResults' = Some(results')
    /\ UNCHANGED <<output, i, currentTest, prevOutput>>
    /\ UNCHANGED <<lcovVars, priorCoverage, coverageData, hostVars>>

\* a first call of the parser
ParseFirstCall == pcParse = "idle" /\ \E text \in ParseInputs : ParseCall(text)

NextParse ==
    \/ ParseFirstCall
    \/ ScanStep
    \/ ParseReturn

\* no parse yet and an empty store
InitParse == ParserIdle /\ testResults = <<>> /\ LcovIdle /\ CoverageEmpty /\ HostIdle

SpecParse == InitParse /\ [][NextParse]_vars

---------------------------------------------------------------------------
(* SpecReparse: the parser called again and again *)

\* the texts a call may be given: any input at first, afterwards the remembered
\* text again or one of BetweenInputs
CallInputs ==
    IF IsSome(memoOutput) THEN BetweenInputs \cup {Val(memoOutput)} ELSE ParseInputs

ParseAnyCall == pcParse \in {"idle", "returned"} /\ \E text \in CallInputs : ParseCall(text)

NextReparse ==
    \/ ParseAnyCall
    \/ ScanStep
    \/ ParseReturn

SpecReparse == InitParse /\ [][NextReparse]_vars

---------------------------------------------------------------------------
(* SpecScan: parseTestResults on texts with duration lines, with stack     *)
(* traces of up to MaxTraceLines lines and with marker words inside        *)
(* labelled lines                                                          *)

MaxTraceLines == 21

NameLineA == <<"Test Name:", " ", "A">>

\* what may follow 'Duration:' and white space
DurationTexts ==
    { <<"12", "ms">>, <<"12", " ", "ms">>, <<"2", "s">>, <<"2", " ", "s">>,
      <<"0", "ms">>, <<"-", "2", "ms">>, <<"took", " ", "2", "s">>,
      <<"2", "sec">>, <<"2", " ", "seconds">>, <<"12", "msec">>,
      <<"2", " ", "min">>, <<"2">>, <<"fast">>, <<"ms">> }

DurationLine(text) == <<"Duration:", " ">> \o text

DurationInputs ==
    { <<NameLineA, DurationLine(d), <<"Passed!">> >> : d \in DurationTexts }
    \cup { <<NameLineA, DurationLine(<<"12", "ms">>), DurationLine(d)>> :
               d \in {<<"fast">>, <<"2", "s">>} }
    \cup { <<DurationLine(<<"12", "ms">>), <<"Passed!">> >> }

TraceLine == <<" ", "at", " ", "F">>

\* a failed test whose stack trace marker is followed by k lines, line
\* number blank of them (if any) blank
TraceInput(k, blank) ==
    <<NameLineA, <<"Stack Trace:">> >>
    \o [n \in 1..k |-> IF n = blank THEN <<" ">> ELSE TraceLine]
    \o << <<"Failed!">> >>

TraceInputs ==
    { TraceInput(k, 0) : k \in 0..MaxTraceLines }
    \cup { TraceInput(k, 3) : k \in {2, 5} }
    \cup { <<NameLineA, <<"Stack Trace:">>, TraceLine>>,
           << <<"Stack Trace:">>, TraceLine, <<"Passed!">> >> }

\* labelled lines whose text shows a terminal marker's word
PrecedenceInputs ==
    { <<NameLineA, <<"Error Message:", " ", "Expected", " ", "Skipped">> >>,
      <<NameLineA, <<"Error Message:", " ", "E">>, <<"Failed!">> >>,
      <<NameLineA, <<"Test Name:", " ", "Failed!", "B">>, <<"Passed!">> >>,
      << <<"Test Name:", " ", "Passed!">>, <<"Passed!">> >>,
      <<NameLineA, <<"Test Method:", " ", "Skipped", "M">> >>,
      <<NameLineA, <<"Duration:", " ", "Passed!", " ", "12", "ms">> >>,
      <<NameLineA, <<"Stack Trace:", " ", "Failed!">>, TraceLine>>,
      <<NameLineA, <<"Failed!", " ", "Passed!">> >> }

ScanInputs == DurationInputs \cup TraceInputs \cup PrecedenceInputs

ParseScanCall == pcParse = "idle" /\ \E text \in ScanInputs : ParseCall(text)

NextScan ==
    \/ ParseScanCall
    \/ ScanStep
    \/ ParseReturn

SpecScan == InitParse /\ [][NextScan]_vars

---------------------------------------------------------------------------
(* SpecLcov: parseLcovReport one line at a time, on a store that earlier *)
(* parses may have filled                                               *)

MaxLcovLines == 4

LcovLines ==
    { <<"SF:", "a.cs">>,
      <<"SF:", "b.cs">>,
      <<"DA:", "1", ",", "5">>,
      <<"DA:", "2", ",", "0">>,
      <<"DA:", "3", ",", "1", ",", "chk">>,
      <<"end_of_record">> }

\* spec.md section 8, scenario B
ScenarioB ==
    << <<"SF:", "src/math.cs">>,
       <<"DA:", "1", ",", "5">>,
       <<"DA:", "2", ",", "0">>,
       <<"end_of_record">> >>

\* a section with no tracked line, scenario B, and the three lines of spec.md
\* section 8, property 3
ScenarioThreeSections ==
    << <<"SF:", "a.cs">>, <<"end_of_record">> >>
    \o ScenarioB
    \o << <<"SF:", "b.cs">>,
          <<"DA:", "1", ",", "5">>,
          <<"DA:", "2", ",", "0">>,
          <<"DA:", "3", ",", "7">>,
          <<"end_of_record">> >>

LcovInputs == SeqsUpTo(LcovLines, MaxLcovLines) \cup {ScenarioB, ScenarioThreeSections}

\* stores left by earlier parses
PriorStores ==
    { <<>>,
      parseLcovReport(<<>>, << <<"SF:", "a.cs">>, <<"DA:", "1", ",", "5">>,
                               <<"end_of_record">> >>),
      parseLcovReport(<<>>, ScenarioThreeSections) }

InitLcov ==
    /\ ParserIdle
    /\ testResults = <<>>
    /\ LcovIdle
    /\ coverageData \in PriorStores
    /\ priorCoverage = coverageData
    /\ HostIdle

\* parseLcovReport is entered: the file is read and split, the locals are set
LcovCall(text) ==
    /\ pcLcov = "idle"
    /\ lcovContent' = text
    /\ lcovPos' = 1
    /\ currentFile' = LcovInit(coverageData).currentFile
    /\ currentCoverage' = LcovInit(coverageData).currentCoverage
    /\ pcLcov' = "scan"
    /\ priorCoverage' = coverageData
    /\ UNCHANGED <<parseVars, testResults, coverageData, hostVars>>

LcovFirstCall == pcLcov = "idle" /\ \E text \in LcovInputs : LcovCall(text)

\* one iteration of for (const line of lines)
LcovStep ==
    /\ pcLcov = "scan"
    /\ lcovPos <= Len(lcovContent)
    /\ LET st == LcovLine([currentFile |-> currentFile,
                           currentCoverage |-> currentCoverage,
                           store |-> coverageData], lcovContent[lcovPos])
       IN  /\ currentFile' = st.currentFile
           /\ currentCoverage' = st.currentCoverage
           /\ coverageData' = st.store
    /\ lcovPos' = lcovPos + 1
    /\ UNCHANGED <<parseVars, testResults, lcovContent, pcLcov, priorCoverage, hostVars>>

\* the loop has ended: parseLcovReport returns
LcovReturn ==
    /\ pcLcov = "scan"
    /\ lcovPos > Len(lcovContent)
    /\ pcLcov' = "done"
    /\ UNCHANGED <<parseVars, testResults, lcovContent, lcovPos, currentFile,
                   currentCoverage, priorCoverage, coverageData, hostVars>>

NextLcov ==
    \/ LcovFirstCall
    \/ LcovStep
    \/ LcovReturn

SpecLcov == InitLcov /\ [][NextLcov]_vars

---------------------------------------------------------------------------
(* SpecCoverage: parseCoverageFile called on one report file after another *)

XmlContent(packages) == [fmt |-> "xml", xml |-> packages, json |-> <<>>, lcov |-> <<>>]

JsonContent(modules) == [fmt |-> "json", xml |-> <<>>, json |-> modules, lcov |-> <<>>]

LcovContent(lines) == [fmt |-> "lcov", xml |-> <<>>, json |-> <<>>, lcov |-> lines]

\* a text that is neither XML nor JSON and has no LCOV line
TextContent == [fmt |-> "text", xml |-> <<>>, json |-> <<>>, lcov |-> <<>>]

\* a class element with the attribute line-rate, as Cobertura writes it
XmlClass(file, rate, lines) ==
    [attrs |-> Some([filename |-> file, lineRate |-> None, line_rate |-> Some(rate)]),
     lines |-> lines]

\* a class element with an attribute lineRate
XmlClassCamel(file, rate, lines) ==
    [attrs |-> Some([filename |-> file, lineRate |-> Some(rate), line_rate |-> None]),
     lines |-> lines]

XmlLine(number, hits) == [number |-> number, hits |-> Some(hits)]

JsonLine(number, usages) == [number |-> number, usages |-> Some(usages)]

\* one package, two classes of the file a.cs and one of b.cs
XmlReport ==
    XmlContent(Some(<<
        [classes |-> Some(<<
            XmlClass(<<"a.cs">>, "1", <<XmlLine("1", "5"), XmlLine("2", "3")>>),
            XmlClassCamel(<<"b.cs">>, "0.5", <<XmlLine("1", "1"), XmlLine("2", "0")>>),
            XmlClassCamel(<<"a.cs">>, "1", <<XmlLine("7", "1")>>) >>)] >>))

\* a package without classes, then a class element without attributes between
\* two well-formed ones
XmlReportBroken ==
    XmlContent(Some(<<
        [classes |-> None],
        [classes |-> Some(<<
            XmlClassCamel(<<"b.cs">>, "0.75", <<>>),
            [attrs |-> None, lines |-> <<>>],
            XmlClassCamel(<<"a.cs">>, "0.5", <<XmlLine("1", "1")>>) >>)] >>))

\* what coverlet writes: two packages, every class with a line-rate attribute
XmlReportCoverlet ==
    XmlContent(Some(<<
        [classes |-> Some(<<
            XmlClass(<<"a.cs">>, "1", <<XmlLine("1", "5"), XmlLine("2", "3")>>) >>)],
        [classes |-> Some(<<
            XmlClass(<<"b.cs">>, "0.5", <<XmlLine("1", "1"), XmlLine("2", "0")>>),
            XmlClass(<<"src/math.cs">>, "0.75", <<>>) >>)] >>))

\* <coverage><packages/></coverage>
XmlReportNoPackage == XmlContent(Some(<<>>))

\* two modules that both describe a.cs
JsonReport ==
    JsonContent(Some(<<
        Some(<< [path |-> <<"a.cs">>, linecoverage |-> Some(Rat(1, 2)),
                 lines |-> <<JsonLine("1", 2), JsonLine("2", 0)>>],
                [path |-> <<"src/math.cs">>, linecoverage |-> Some(Num(1)),
                 lines |-> <<JsonLine("1", 1), JsonLine("2", 1), JsonLine("3", 1)>>] >>),
        Some(<< [path |-> <<"a.cs">>, linecoverage |-> None,
                 lines |-> <<JsonLine("5", 1)>>] >>) >>))

\* a module that is null after a well-formed one
JsonReportNullModule ==
    JsonContent(Some(<<
        Some(<< [path |-> <<"b.cs">>, linecoverage |-> Some(Num(1)),
                 lines |-> <<JsonLine("1", 1)>>] >>),
        None >>))

LcovReportOneFile ==
    LcovContent(<< <<"SF:", "a.cs">>, <<"DA:", "1", ",", "5">>, <<"end_of_record">> >>)

\* a section left open by the next SF: line
LcovReportOpenSection ==
    LcovContent(<< <<"SF:", "b.cs">>, <<"DA:", "1", ",", "0">>,
                   <<"SF:", "a.cs">>, <<"DA:", "2", ",", "0">>, <<"end_of_record">> >>)

\* the report files dotnet test may leave in a project's directory
ReportFiles ==
    { [name |-> "coverage.cobertura.xml", content |-> XmlReport],
      [name |-> "coverage.cobertura.xml", content |-> XmlReportBroken],
      [name |-> "coverage.cobertura.xml", content |-> XmlReportCoverlet],
      [name |-> "coverage.cobertura.xml", content |-> XmlReportNoPackage],
      [name |-> "coverage.cobertura.xml", content |-> TextContent],
      [name |-> "coverage.json", content |-> JsonReport],
      [name |-> "coverage.json", content |-> JsonReportNullModule],
      [name |-> "coverage.lcov", content |-> LcovReportOneFile],
      [name |-> "coverage.lcov", content |-> LcovReportOpenSection],
      [name |-> "coverage.lcov", content |-> LcovContent(ScenarioThreeSections)] }

\* the values of dotnet.coverage.format (USAGE.md)
Formats == {"cobertura", "json", "lcov", "opencover"}

\* await this.parseCoverageFile(coverageFile, format)
ParseCoverageFile(format, file) ==
    /\ parsedFormat' = Some(format)
    /\ parsedFile' = Some(file)
    /\ priorCoverage' = coverageData
    /\ coverageData' = parseCoverageFile(coverageData, file.name, format, file.content).store
    /\ UNCHANGED <<parseVars, testResults, lcovVars, projectVars, testRunVars, covRunVars>>

ParseAnyFile == \E format \in Formats, file \in ReportFiles : ParseCoverageFile(format, file)

NextCoverage == ParseAnyFile

InitCoverage == InitParse

SpecCoverage == InitCoverage /\ [][NextCoverage]_vars

---------------------------------------------------------------------------
(* SpecTests: runAllTests invocations, each awaiting dotnet test for one   *)
(* test project after the other; invocations may overlap                   *)

MaxTestRuns == 2

\* getTestResults() without a project path, reading one entry only
getTestResultsLastOnly(store) ==
    IF store = <<>> THEN <<>> ELSE store[Len(store)][2]

\* getTestResults() without a project path: all stored sequences, one after
\* the other in the order of the Map's entries
RECURSIVE getTestResults(_)
getTestResults(store) ==
    IF store = <<>> THEN <<>> ELSE Head(store)[2] \o getTestResults(Tail(store))

\* allResults.filter(r => r.outcome === outcome).length
CountOutcome(all, outcome) ==
    Cardinality({k \in 1..Len(all) : all[k].outcome = Some(outcome)})

getTestSummary(store) ==
    LET allResults == getTestResults(store)
    IN  [passed |-> CountOutcome(allResults, "Passed"),
         failed |-> CountOutcome(allResults, "Failed"),
         skipped |-> CountOutcome(allResults, "Skipped"),
         total |-> Len(allResults)]

\* StatusBar.updateTestStatus(summary.passed, summary.failed, summary.total)
updateTestStatus(button, summary) ==
    IF summary.total > 0
    THEN Some([icon |-> IF summary.failed > 0 THEN "error" ELSE "check",
               passed |-> summary.passed,
               total |-> summary.total])
    ELSE button

FireAndStore(store, path, res) ==
    [store |-> MapSet(store, path, res), seen |-> getTestSummary(store)]

\* this.testResults.set(projectPath, results); this.onTestResultsChangedEmitter
\* .fire(): the store after the set and the summary the subscriber then reads
StoreAndFire(store, path, res) ==
    [store |-> MapSet(store, path, res),
     seen |-> getTestSummary(MapSet(store, path, res))]

\* projects.filter(p => p.isTestProject), their paths
RECURSIVE TestProjectPaths(_)
TestProjectPaths(ps) ==
    IF ps = <<>> THEN <<>>
    ELSE (IF Head(ps).isTestProject THEN <<Head(ps).path>> ELSE <<>>)
         \o TestProjectPaths(Tail(ps))

AppProject == [path |-> "app", name |-> "App", isTestProject |-> FALSE]

TestProject1 == [path |-> "t1", name |-> "T1", isTestProject |-> TRUE]

TestProject2 == [path |-> "t2", name |-> "T2", isTestProject |-> TRUE]

\* what detection may have found in the workspace
ProjectLists ==
    { <<AppProject>>,
      <<TestProject1>>,
      <<AppProject, TestProject1, TestProject2>> }

\* what dotnet test may print
RunOutputs ==
    { ScenarioA,
      << <<"Test Name:", " ", "A">>, <<"Passed!">> >>,
      << <<"Test Name:", " ", "A">>, <<"Skipped">>, <<"Test Name:", " ", "B">> >>,
      << <<>> >> }

\* options?.timeout || 30000: the milliseconds after which exec kills dotnet
DefaultTimeout == 30000

\* the empty string
EmptyText == << <<>> >>

\* a || b || c of three strings
FirstNonEmpty(a, b, c) ==
    IF a # EmptyText THEN a ELSE IF b # EmptyText THEN b ELSE c

\* error.message of a failed exec
CommandFailed == << <<"Command failed">> >>

\* execAsync(fullCommand, {cwd, timeout, maxBuffer}) for a dotnet process that
\* would take proc.elapsed milliseconds: killed at the timeout, rejected on a
\* non-zero exit code, both with the output captured so far
execAsync(proc, timeout) ==
    [rejected |-> proc.elapsed > timeout \/ proc.exitCode # 0,
     killed |-> proc.elapsed > timeout,
     stdout |-> proc.stdout,
     stderr |-> proc.stderr,
     message |-> IF proc.elapsed > timeout \/ proc.exitCode # 0
                 THEN CommandFailed ELSE EmptyText]

\* DotNetCli.executeCommand(command, cwd, options): the result of exec, or
\* the enhanced error it throws; options is the timeout option, if given
executeCommand(proc, options) ==
    LET result == execAsync(proc, IF IsSome(options) /\ Val(options) # 0
                                  THEN Val(options) ELSE DefaultTimeout)
    IN  IF result.rejected
        THEN [rejected |-> TRUE,
              message |-> FirstNonEmpty(result.stdout, result.stderr, result.message),
              stdout |-> result.stdout,
              stderr |-> result.stderr]
        ELSE [rejected |-> FALSE, message |-> EmptyText,
              stdout |-> result.stdout, stderr |-> result.stderr]

\* DotNetCli.runTests(projectPath, testFilter): executeCommand without options
runTests(proc) == executeCommand(proc, None)

\* how dotnet test may behave: it ends in time with exit code 0, a test fails
\* (exit code 1), it hangs, the project does not build
Processes ==
    { [elapsed |-> 1000, exitCode |-> 0, stdout |-> out, stderr |-> EmptyText] :
          out \in RunOutputs }
    \cup { [elapsed |-> 1000, exitCode |-> 1, stdout |-> ScenarioA, stderr |-> EmptyText],
           [elapsed |-> DefaultTimeout + 1, exitCode |-> 0,
            stdout |-> EmptyText, stderr |-> EmptyText],
           [elapsed |-> 1000, exitCode |-> 1,
            stdout |-> EmptyText, stderr |-> << <<"MSB1009">> >>] }

TestEvent(op, path, out) ==
    Some([op |-> op, path |-> path, output |-> out, before |-> testResults,
          proc |-> None, error |-> None, returned |-> <<>>])

\* an invocation of runAllTests over the test projects paths: the first
\* runTestsForProject has invoked dotnet test
NewTestRun(paths) ==
    [pc |-> IF paths = <<>> THEN "done" ELSE "await",
     queue |-> paths,
     invoked |-> IF paths = <<>> THEN <<>> ELSE <<Head(paths)>>,
     outcomes |-> <<>>,
     hasErrors |-> FALSE,
     fired |-> 0]

NextTestProjectStopOnFailure(run, outcome, fires) ==
    LET rest == IF outcome = "stored" THEN Tail(run.queue) ELSE <<>>
    IN  [pc |-> IF rest = <<>> THEN "finish" ELSE "await",
         queue |-> rest,
         invoked |-> IF rest = <<>> THEN run.invoked
                     ELSE Append(run.invoked, Head(rest)),
         outcomes |-> Append(run.outcomes, outcome),
         hasErrors |-> run.hasErrors \/ outcome = "threw",
         fired |-> run.fired + fires]

\* runTestsForProject has returned ("stored", or "failed": its own catch has
\* returned []) or thrown ("threw"), having fired the notification fires
\* times: the loop notes a throw and invokes dotnet test for the next project,
\* or ends
NextTestProject(run, outcome, fires) ==
    [pc |-> IF Tail(run.queue) = <<>> THEN "finish" ELSE "await",
     queue |-> Tail(run.queue),
     invoked |-> IF Tail(run.queue) = <<>> THEN run.invoked
                 ELSE Append(run.invoked, Head(Tail(run.queue))),
     outcomes |-> Append(run.outcomes, outcome),
     hasErrors |-> run.hasErrors \/ outcome = "threw",
     fired |-> run.fired + fires]

\* runAllTests is called: no test project, a warning and return; otherwise
\* the loop's first runTestsForProject awaits dotnet test
RunAllTestsCall ==
    /\ Len(testRuns) < MaxTestRuns
    /\ testRuns' = Append(testRuns, NewTestRun(TestProjectPaths(projects)))
    /\ testEvent' = TestEvent("called", "", <<>>)
    /\ UNCHANGED <<parseVars, testResults, lcovVars, priorCoverage, coverageData,
                   fileVars, projectVars, notifiedSummary, testStatusButton, lastStored,
                   covRunVars>>

RunTestsForProjectDoneUnlessNewer(r, out) ==
    /\ testRuns[r].pc = "await"
    /\ LET path == Head(testRuns[r].queue)
           newer == MapHas(lastStored, path) /\ Val(MapGet(lastStored, path)).run > r
           sf == StoreAndFire(testResults, path, parseTestResults(out))
       IN  /\ testResults' = IF newer THEN testResults ELSE sf.store
           /\ notifiedSummary' = Some(getTestSummary(testResults'))
           /\ testStatusButton' = updateTestStatus(testStatusButton, getTestSummary(testResults'))
           /\ testEvent' = Some([Val(TestEvent("stored", path, out))
                                    EXCEPT !.returned = parseTestResults(out)])
           /\ lastStored' = MapSet(lastStored, path, [run |-> r, output |-> out])
    /\ testRuns' = [testRuns EXCEPT ![r] = NextTestProject(@, "stored", 1)]
    /\ UNCHANGED <<parseVars, lcovVars, priorCoverage, coverageData,
                   fileVars, projectVars, covRunVars>>

\* dotnet test has ended for the project at the head of run r's queue: the
\* output is parsed and stored, the notification is fired, the subscriber
\* updates the status bar; the loop goes on to the next project
RunTestsForProjectDone(r, out) ==
    /\ testRuns[r].pc = "await"
    /\ LET path == Head(testRuns[r].queue)
           sf == StoreAndFire(testResults, path, parseTestResults(out))
       IN  /\ testResults' = sf.store
           /\ notifiedSummary' = Some(sf.seen)
           /\ testStatusButton' = updateTestStatus(testStatusButton, sf.seen)
           /\ testEvent' = Some([Val(TestEvent("stored", path, out))
                                    EXCEPT !.returned = parseTestResults(out)])
           /\ lastStored' = MapSet(lastStored, path, [run |-> r, output |-> out])
    /\ testRuns' = [testRuns EXCEPT ![r] = NextTestProject(@, "stored", 1)]
    /\ UNCHANGED <<parseVars, lcovVars, priorCoverage, coverageData,
                   fileVars, projectVars, covRunVars>>

RunTestsForProjectFailClearing(r, proc) ==
    /\ testRuns[r].pc = "await"
    /\ runTests(proc).rejected
    /\ LET path == Head(testRuns[r].queue)
           sf == StoreAndFire(testResults, path, <<>>)
       IN  /\ testResults' = sf.store
           /\ notifiedSummary' = Some(sf.seen)
           /\ testStatusButton' = updateTestStatus(testStatusButton, sf.seen)
           /\ testEvent' = Some([Val(TestEvent("failed", path, <<>>))
                                    EXCEPT !.proc = Some(proc),
                                           !.error = Some(runTests(proc))])
    /\ testRuns' = [testRuns EXCEPT ![r] = NextTestProject(@, "failed", 1)]
    /\ UNCHANGED <<parseVars, lcovVars, priorCoverage, coverageData,
                   fileVars, projectVars, lastStored, covRunVars>>

\* dotnet test has failed and runTests has thrown: runTestsForProject catches
\* the error, shows it and returns []
RunTestsForProjectFail(r, proc) ==
    /\ testRuns[r].pc = "await"
    /\ runTests(proc).rejected
    /\ testEvent' = Some([Val(TestEvent("failed", Head(testRuns[r].queue), <<>>))
                             EXCEPT !.proc = Some(proc),
                                    !.error = Some(runTests(proc))])
    /\ testRuns' = [testRuns EXCEPT ![r] = NextTestProject(@, "failed", 0)]
    /\ UNCHANGED <<parseVars, testResults, lcovVars, priorCoverage, coverageData,
                   fileVars, projectVars, notifiedSummary, testStatusButton, lastStored,
                   covRunVars>>

\* after the loop: the summary message and this.onTestResultsChangedEmitter.fire()
RunAllTestsFinish(r) ==
    /\ testRuns[r].pc = "finish"
    /\ notifiedSummary' = Some(getTestSummary(testResults))
    /\ testStatusButton' = updateTestStatus(testStatusButton, getTestSummary(testResults))
    /\ testEvent' = TestEvent("finished", "", <<>>)
    /\ testRuns' = [testRuns EXCEPT ![r].pc = "done", ![r].fired = @ + 1]
    /\ UNCHANGED <<parseVars, testResults, lcovVars, priorCoverage, coverageData,
                   fileVars, projectVars, lastStored, covRunVars>>

TestRunDone ==
    \E r \in 1..Len(testRuns), proc \in Processes :
        /\ ~runTests(proc).rejected
        /\ RunTestsForProjectDone(r, runTests(proc).stdout)

TestRunFail ==
    \E r \in 1..Len(testRuns), proc \in Processes : RunTestsForProjectFail(r, proc)

TestRunFinish == \E r \in 1..Len(testRuns) : RunAllTestsFinish(r)

NextTests ==
    \/ RunAllTestsCall
    \/ TestRunDone
    \/ TestRunFail
    \/ TestRunFinish

InitTests ==
    /\ ParserIdle
    /\ testResults = <<>>
    /\ LcovIdle
    /\ CoverageEmpty
    /\ FileIdle
    /\ projects \in ProjectLists
    /\ LaunchIdle
    /\ DetectIdle
    /\ TestRunsIdle
    /\ ConfigDefault
    /\ CovRunsIdle

SpecTests == InitTests /\ [][NextTests]_vars

---------------------------------------------------------------------------
(* SpecCoverageRun: runTestsWithCoverage invocations.  An invocation gives *)
(* way to others only where it awaits (dotnet test, the XML parser); the   *)
(* upserts of one report run without interruption, which "running" holds.  *)

MaxCovRuns == 2

\* coverage >= 80, for a number that is not NaN
RatAtLeast(x, k) == x.d > 0 /\ x.n >= k * x.d

\* coverage.toFixed(1), in tenths, for a number that is not negative
ToFixed1(x) == (20 * x.n + x.d) \div (2 * x.d)

\* StatusBar.updateCoverageStatus(coverage)
updateCoverageStatus(button, coverage) ==
    IF RatAtLeast(coverage, 0)
    THEN Some([icon |-> IF RatAtLeast(coverage, 80) THEN "check"
                        ELSE IF RatAtLeast(coverage, 50) THEN "warning"
                        ELSE "error",
               tenths |-> ToFixed1(coverage)])
    ELSE button

\* editor.document.lineAt(n) throws for a line the document does not have
LineAtThrows(editor, n) == n < 0 \/ n >= editor.lineCount

\* visualizeCoverage: the decorations afterwards and whether it threw
visualizeCoverage(editor, store, decorations) ==
    IF ~IsSome(editor) \/ ~MapHas(store, Val(editor).path)
    THEN [decorations |-> decorations, threw |-> FALSE]
    ELSE LET lines == Val(MapGet(store, Val(editor).path)).lines
         IN  IF \E k \in 1..Len(lines) : LineAtThrows(Val(editor), lines[k].line - 1)
             THEN [decorations |-> decorations, threw |-> TRUE]
             ELSE [decorations |->
                       Some([covered |-> {lines[k].line : k \in {j \in 1..Len(lines) : lines[j].covered}},
                             uncovered |-> {lines[k].line : k \in {j \in 1..Len(lines) : ~lines[j].covered}}]),
                   threw |-> FALSE]

\* the report files parseCoverageReport looks for, in this order
CoverageFiles ==
    << [dir |-> "", name |-> "coverage.cobertura.xml"],
       [dir |-> "", name |-> "coverage.json"],
       [dir |-> "", name |-> "coverage.lcov"],
       [dir |-> "coverage", name |-> "coverage.cobertura.xml"],
       [dir |-> "coverage", name |-> "coverage.json"] >>

\* the first of CoverageFiles that exists on the disk, 0 if none does
FirstExisting(disk) ==
    IF \E k \in 1..Len(CoverageFiles) : IsSome(disk[CoverageFiles[k]])
    THEN Min({k \in 1..Len(CoverageFiles) : IsSome(disk[CoverageFiles[k]])})
    ELSE 0

\* the places in a project's directory where a report file may lie: each of
\* the three file names, in the directory itself or in coverage/
ReportLocations ==
    {[dir |-> d, name |-> n] :
        d \in {"", "coverage"},
        n \in {"coverage.cobertura.xml", "coverage.json", "coverage.lcov"}}

\* the disk on which exactly the given files lie
DiskOf(files) ==
    [loc \in ReportLocations |->
        IF \E f \in files : f.loc = loc
        THEN Some((CHOOSE f \in files : f.loc = loc).content)
        ELSE None]

\* what a dotnet test run may leave in the project's directory: for each of
\* ReportLocations the file's content, or None
Disks ==
    { DiskOf({}),
      DiskOf({[loc |-> CoverageFiles[1], content |-> XmlReport]}),
      DiskOf({[loc |-> CoverageFiles[2], content |-> JsonReport],
              [loc |-> CoverageFiles[3], content |-> LcovReportOneFile]}),
      DiskOf({[loc |-> CoverageFiles[3], content |-> LcovReportOpenSection]}),
      DiskOf({[loc |-> CoverageFiles[4], content |-> XmlReportBroken]}),
      DiskOf({[loc |-> CoverageFiles[5], content |-> JsonReportNullModule]}),
      DiskOf({[loc |-> [dir |-> "coverage", name |-> "coverage.lcov"],
               content |-> LcovReportOneFile]}) }

\* the editor the user may have in front: none, a.cs with 3 lines, a.cs with
\* 10 lines
Editors ==
    { None,
      Some([path |-> <<"a.cs">>, lineCount |-> 3]),
      Some([path |-> <<"a.cs">>, lineCount |-> 10]) }

\* an invocation: besides its position, what it has done so far: the
\* projects it invoked dotnet test for, whether the parser at work is to
\* throw, the parse errors logged and the warnings and errors shown to the
\* user
NewCovRun(pc, checked, queue) ==
    [pc |-> pc, checked |-> checked, queue |-> queue, report |-> None,
     records |-> <<>>, lines |-> <<>>, currentFile |-> <<>>,
     currentCoverage |-> None, fired |-> 0,
     invoked |-> IF queue = <<>> THEN <<>> ELSE <<Head(queue)>>,
     threw |-> FALSE,
     parseErrors |-> 0,
     failureMessages |-> IF checked THEN 0 ELSE 1]

\* collectCoverage has returned: the loop goes on to the next project, or ends
NextProject(run) ==
    [run EXCEPT !.pc = IF Tail(run.queue) = <<>> THEN "finish" ELSE "await",
                !.queue = Tail(run.queue),
                !.report = None,
                !.records = <<>>,
                !.lines = <<>>,
                !.currentFile = <<>>,
                !.currentCoverage = None,
                !.invoked = IF Tail(run.queue) = <<>> THEN @
                            ELSE Append(@, Head(Tail(run.queue))),
                !.threw = FALSE,
                !.parseErrors = IF run.threw THEN @ + 1 ELSE @]

CovEvent(op, r, message) == Some([op |-> op, run |-> r, message |-> message])

\* runTestsWithCoverage is called: coverage disabled or no test project, a
\* warning and return; otherwise the first collectCoverage awaits dotnet test
RunTestsWithCoverageCall ==
    /\ running = None
    /\ Len(covRuns) < MaxCovRuns
    /\ covRuns' = Append(covRuns,
                         IF ~coverageEnabled \/ TestProjectPaths(projects) = <<>>
                         THEN NewCovRun("done", FALSE, <<>>)
                         ELSE NewCovRun("await", TRUE, TestProjectPaths(projects)))
    /\ covEvent' = CovEvent("called", Len(covRuns) + 1,
                            IF ~coverageEnabled \/ TestProjectPaths(projects) = <<>>
                            THEN "warning" ELSE "")
    /\ UNCHANGED <<parseVars, testResults, lcovVars, priorCoverage, coverageData,
                   fileVars, projectVars, testRunVars, coverageEnabled, coverageFormat,
                   running, coverageNotifications, coverageButton, activeEditor,
                   editorDecorations, collected>>

\* dotnet test could not be run: collectCoverage catches the error and shows it
CollectCoverageFail(r) ==
    /\ running = None
    /\ covRuns[r].pc = "await"
    /\ covRuns' = [covRuns EXCEPT ![r] =
                      NextProject([@ EXCEPT !.failureMessages = @ + 1])]
    /\ covEvent' = CovEvent("failed", r, "error")
    /\ UNCHANGED <<parseVars, testResults, lcovVars, priorCoverage, coverageData,
                   fileVars, projectVars, testRunVars, coverageEnabled, coverageFormat,
                   running, coverageNotifications, coverageButton, activeEditor,
                   editorDecorations, collected>>

\* the invocation's state when parseCoverageFile has handed the file to its
\* parser and the parser has reached its first upsert, its await or its end
EnterParser(run, r, format, file) ==
    LET parser == ParserOf(format, file.name)
    IN  CASE parser = "cobertura" ->
                 [run |-> [run EXCEPT !.pc = "xml", !.report = Some(file)], running |-> None]
          [] parser = "json" /\ JsonUpserts(file.content).records # <<>> ->
                 [run |-> [run EXCEPT !.pc = "upsert", !.report = Some(file),
                                      !.records = JsonUpserts(file.content).records,
                                      !.threw = JsonUpserts(file.content).threw],
                  running |-> Some(r)]
          [] parser = "lcov" /\ file.content.fmt = "lcov" ->
                 [run |-> [run EXCEPT !.pc = "lcov", !.report = Some(file),
                                      !.lines = file.content.lcov],
                  running |-> Some(r)]
          [] OTHER ->
                 [run |-> NextProject([run EXCEPT !.threw = parser = "json"
                                                    /\ JsonUpserts(file.content).threw]),
                  running |-> None]

\* dotnet test has ended for the project at the head of run r's queue:
\* parseCoverageReport takes the first report file that exists
CollectCoverageDone(r, disk) ==
    /\ running = None
    /\ covRuns[r].pc = "await"
    /\ collected' = Some([run |-> r, disk |-> disk, parsed |-> FirstExisting(disk)])
    /\ LET entered ==
               IF FirstExisting(disk) = 0
               THEN [run |-> NextProject(covRuns[r]), running |-> None]
               ELSE EnterParser(covRuns[r], r, coverageFormat,
                                [name |-> CoverageFiles[FirstExisting(disk)].name,
                                 content |-> Val(disk[CoverageFiles[FirstExisting(disk)]])])
       IN  /\ covRuns' = [covRuns EXCEPT ![r] = entered.run]
           /\ running' = entered.running
    /\ covEvent' = CovEvent("collected", r, "")
    /\ UNCHANGED <<parseVars, testResults, lcovVars, priorCoverage, coverageData,
                   fileVars, projectVars, testRunVars, coverageEnabled, coverageFormat,
                   coverageNotifications, coverageButton, activeEditor,
                   editorDecorations>>

\* await parser.parseStringPromise(content) has ended: with an error, which
\* parseCoverageFile catches, or with the document, whose classes are walked
CoberturaParsed(r) ==
    /\ running = None
    /\ covRuns[r].pc = "xml"
    /\ LET records == CoberturaUpserts(Val(covRuns[r].report).content).records
           threw == CoberturaUpserts(Val(covRuns[r].report).content).threw
       IN  IF records = <<>>
           THEN /\ covRuns' = [covRuns EXCEPT ![r] = NextProject([@ EXCEPT !.threw = threw])]
                /\ running' = None
           ELSE /\ covRuns' = [covRuns EXCEPT ![r].pc = "upsert", ![r].records = records,
                                              ![r].threw = threw]
                /\ running' = Some(r)
    /\ covEvent' = CovEvent("parsed", r, "")
    /\ UNCHANGED <<parseVars, testResults, lcovVars, priorCoverage, coverageData,
                   fileVars, projectVars, testRunVars, coverageEnabled, coverageFormat,
                   coverageNotifications, coverageButton, activeEditor,
                   editorDecorations, collected>>

\* this.coverageData.set(fileName, coverageData) for the next class or
\* document; after the last, collectCoverage returns
CoverageUpsert(r) ==
    /\ running = Some(r)
    /\ covRuns[r].pc = "upsert"
    /\ coverageData' = MapSet(coverageData, Head(covRuns[r].records).filePath,
                              Head(covRuns[r].records))
    /\ IF Tail(covRuns[r].records) = <<>>
       THEN covRuns' = [covRuns EXCEPT ![r] = NextProject(@)] /\ running' = None
       ELSE covRuns' = [covRuns EXCEPT ![r].records = Tail(@)] /\ running' = running
    /\ covEvent' = CovEvent("upsert", r, "")
    /\ UNCHANGED <<parseVars, testResults, lcovVars, priorCoverage,
                   fileVars, projectVars, testRunVars, coverageEnabled, coverageFormat,
                   coverageNotifications, coverageButton, activeEditor,
                   editorDecorations, collected>>

\* one iteration of parseLcovReport's loop; after the last line,
\* collectCoverage returns
CoverageLcovLine(r) ==
    /\ running = Some(r)
    /\ covRuns[r].pc = "lcov"
    /\ LET st == LcovLine([currentFile |-> covRuns[r].currentFile,
                           currentCoverage |-> covRuns[r].currentCoverage,
                           store |-> coverageData], Head(covRuns[r].lines))
       IN  /\ coverageData' = st.store
           /\ IF Tail(covRuns[r].lines) = <<>>
              THEN covRuns' = [covRuns EXCEPT ![r] = NextProject(@)] /\ running' = None
              ELSE /\ covRuns' = [covRuns EXCEPT ![r].lines = Tail(@),
                                                 ![r].currentFile = st.currentFile,
                                                 ![r].currentCoverage = st.currentCoverage]
                   /\ running' = running
    /\ covEvent' = CovEvent("line", r, "")
    /\ UNCHANGED <<parseVars, testResults, lcovVars, priorCoverage,
                   fileVars, projectVars, testRunVars, coverageEnabled, coverageFormat,
                   coverageNotifications, coverageButton, activeEditor,
                   editorDecorations, collected>>

\* after the loop: the message about the overall coverage, visualizeCoverage()
\* and, unless that threw, this.onCoverageChangedEmitter.fire(), on which the
\* subscriber updates the status bar
RunTestsWithCoverageFinish(r) ==
    /\ running = None
    /\ covRuns[r].pc = "finish"
    /\ LET overall == getOverallCoverage(coverageData)
           shown == visualizeCoverage(activeEditor, coverageData, editorDecorations)
       IN  /\ editorDecorations' = shown.decorations
           /\ IF shown.threw
              THEN /\ covEvent' = CovEvent("threw", r, IF RatPositive(overall) THEN "info" ELSE "warning")
                   /\ covRuns' = [covRuns EXCEPT ![r].pc = "done",
                                                 ![r].failureMessages =
                                                     IF RatPositive(overall) THEN @ ELSE @ + 1]
                   /\ UNCHANGED <<coverageNotifications, coverageButton>>
              ELSE /\ covEvent' = CovEvent("fired", r, IF RatPositive(overall) THEN "info" ELSE "warning")
                   /\ covRuns' = [covRuns EXCEPT ![r].pc = "done", ![r].fired = @ + 1,
                                                 ![r].failureMessages =
                                                     IF RatPositive(overall) THEN @ ELSE @ + 1]
                   /\ coverageNotifications' = coverageNotifications + 1
                   /\ coverageButton' = updateCoverageStatus(coverageButton, overall)
    /\ UNCHANGED <<parseVars, testResults, lcovVars, priorCoverage, coverageData,
                   fileVars, projectVars, testRunVars, coverageEnabled, coverageFormat,
                   running, activeEditor, collected>>

CoverageRunFail == \E r \in 1..Len(covRuns) : CollectCoverageFail(r)

CoverageRunCollected ==
    \E r \in 1..Len(covRuns) :
        /\ running = None
        /\ covRuns[r].pc = "await"
        /\ \E disk \in Disks : CollectCoverageDone(r, disk)

CoverageRunParsed == \E r \in 1..Len(covRuns) : CoberturaParsed(r)

CoverageRunUpsert == \E r \in 1..Len(covRuns) : CoverageUpsert(r)

CoverageRunLcovLine == \E r \in 1..Len(covRuns) : CoverageLcovLine(r)

CoverageRunFinish == \E r \in 1..Len(covRuns) : RunTestsWithCoverageFinish(r)

NextCoverageRun ==
    \/ RunTestsWithCoverageCall
    \/ CoverageRunFail
    \/ CoverageRunCollected
    \/ CoverageRunParsed
    \/ CoverageRunUpsert
    \/ CoverageRunLcovLine
    \/ CoverageRunFinish

\* the settings, the detected projects and the editor in front
RunConfigs ==
    { [enabled |-> FALSE, format |-> "cobertura", projects |-> <<TestProject1>>, editor |-> None],
      [enabled |-> TRUE, format |-> "cobertura", projects |-> <<AppProject>>, editor |-> None] }
    \cup
    { [enabled |-> TRUE, format |-> f, projects |-> ps, editor |-> ed] :
        f \in {"cobertura", "opencover"},
        ps \in {<<TestProject1>>, <<AppProject, TestProject1, TestProject2>>},
        ed \in Editors }

InitCoverageRun ==
    /\ ParserIdle
    /\ testResults = <<>>
    /\ LcovIdle
    /\ CoverageEmpty
    /\ FileIdle
    /\ LaunchIdle
    /\ DetectIdle
    /\ TestRunsIdle
    /\ covRuns = <<>>
    /\ running = None
    /\ covEvent = None
    /\ coverageNotifications = 0
    /\ coverageButton = None
    /\ editorDecorations = None
    /\ collected = None
    /\ \E cfg \in RunConfigs :
           /\ coverageEnabled = cfg.enabled
           /\ coverageFormat = cfg.format
           /\ projects = cfg.projects
           /\ activeEditor = cfg.editor

SpecCoverageRun == InitCoverageRun /\ [][NextCoverageRun]_vars

---------------------------------------------------------------------------
(* SpecLaunch: the toolbar's selectors and runProject / debugProject for   *)
(* the selected project, an executable one.  One invocation runs at a      *)
(* time; the platform stays 'Any CPU' and the C# extension is installed    *)
(* and active.                                                             *)

MaxLaunches == 2

BuildConfigs == {"Debug", "Release"}

\* path.join(projectDir, 'bin', config, framework, `${projectName}.dll`)
DllPath(config, framework) == [config |-> config, framework |-> framework]

\* the four places createLaunchConfiguration looks for the built assembly
possiblePaths(project) ==
    << DllPath("Debug", "net8.0"),
       DllPath("Debug", "net7.0"),
       DllPath("Debug", "net6.0"),
       DllPath("Debug", project.targetFramework) >>

\* the fallback pattern '${workspaceFolder}/bin/Debug/**/${projectName}.dll'
FallbackProgram == DllPath("Debug", "**")

\* for (const possiblePath of possiblePaths) if (fs.existsSync(possiblePath))
\* { programPath = possiblePath; break; }, and the fallback
programPath(project, disk) ==
    LET found == {k \in 1..Len(possiblePaths(project)) : possiblePaths(project)[k] \in disk}
    IN  IF found = {} THEN FallbackProgram
        ELSE possiblePaths(project)[CHOOSE k \in found : \A j \in found : k <= j]

\* createLaunchConfiguration(project, profileName): the program and, when
\* the profile is one of launchSettings.json, its name in the configuration
createLaunchConfiguration(project, profileName, profiles, disk) ==
    [program |-> programPath(project, disk),
     profile |-> IF IsSome(profileName)
                    /\ \E k \in 1..Len(profiles) : profiles[k] = Val(profileName)
                 THEN profileName ELSE None]

\* the answers to a quick pick over items: one of them, or dismissed
QuickPickAnswers(items) == {None} \cup {Some(items[k]) : k \in 1..Len(items)}

\* LaunchProfileManager.selectProfile(projectPath) when the quick pick, if
\* one is shown, is answered with answer
selectProfile(profiles, answer) ==
    IF Len(profiles) = 0 THEN None
    ELSE IF Len(profiles) = 1 THEN Some(profiles[1])
    ELSE answer

\* Toolbar.updateLaunchProfile(): the current profile after it
updateLaunchProfile(profiles, current) ==
    IF Len(profiles) = 0 THEN None
    ELSE IF Len(profiles) = 1 THEN Some(profiles[1])
    ELSE current

\* the profile runProject and debugProject go on with: none without
\* profiles, the only one, or the answer to their own quick pick
profileNameOf(profiles, answer) ==
    IF Len(profiles) > 0
    THEN (IF Len(profiles) = 1 THEN Some(profiles[1]) ELSE selectProfile(profiles, answer))
    ELSE None

\* buildProject(path, configuration, platform) has written the assembly
BuildOutput(project, config) == DllPath(config, project.targetFramework)

ConsoleProject ==
    [path |-> "app", name |-> "App", type |-> "console", targetFramework |-> "net8.0"]

WebProject ==
    [path |-> "web", name |-> "Web", type |-> "web", targetFramework |-> "net5.0"]

\* the contents of launchSettings.json
LaunchSettingsFiles == { <<>>, <<"http">>, <<"http", "https">> }

\* the command dotnet.selectBuildConfig: Toolbar.selectBuildConfig(), then
\* runDebugManager.setBuildConfig(toolbar.getBuildConfig())
SelectBuildConfig ==
    /\ \E selected \in QuickPickAnswers(<<"Debug", "Release">>) :
           /\ currentBuildConfig' = IF IsSome(selected) THEN Val(selected)
                                     ELSE currentBuildConfig
           /\ buildConfig' = currentBuildConfig'
    /\ UNCHANGED <<currentProject, launchSettings, builtFiles, currentLaunchProfile,
                   launch, launchCount>>
    /\ UNCHANGED <<parseVars, testResults, lcovVars, priorCoverage, coverageData,
                   fileVars, projects, detectVars,
                   testRunVars, covRunVars>>

\* the command dotnet.selectLaunchProfile: Toolbar.selectLaunchProfile()
SelectLaunchProfile ==
    /\ IsSome(currentProject)
    /\ \E answer \in QuickPickAnswers(launchSettings) :
           LET selected == selectProfile(launchSettings, answer)
           IN  currentLaunchProfile' =
                   IF IsSome(selected)
                   THEN updateLaunchProfile(launchSettings, selected)
                   ELSE currentLaunchProfile
    /\ UNCHANGED <<currentProject, launchSettings, builtFiles, currentBuildConfig,
                   buildConfig, launch, launchCount>>
    /\ UNCHANGED <<parseVars, testResults, lcovVars, priorCoverage, coverageData,
                   fileVars, projects, detectVars,
                   testRunVars, covRunVars>>

\* runProject() or debugProject() is called and awaits
\* dotnetCli.buildProject(targetProject.path, this.buildConfig, this.platform)
LaunchCall(op) ==
    /\ launchCount < MaxLaunches
    /\ IF IsSome(launch) THEN Val(launch).pc = "done" ELSE TRUE
    /\ IsSome(currentProject)
    /\ Val(currentProject).type # "library"
    /\ launch' = Some([op |-> op, pc |-> "build",
                       selectedConfig |-> currentBuildConfig,
                       config |-> buildConfig,
                       built |-> FALSE,
                       profileName |-> None,
                       program |-> None])
    /\ launchCount' = launchCount + 1
    /\ UNCHANGED <<currentProject, launchSettings, builtFiles, currentBuildConfig,
                   currentLaunchProfile, buildConfig>>
    /\ UNCHANGED <<parseVars, testResults, lcovVars, priorCoverage, coverageData,
                   fileVars, projects, detectVars,
                   testRunVars, covRunVars>>

RunProjectCall == LaunchCall("run")

DebugProjectCall == LaunchCall("debug")

\* dotnet build has ended: on success the assembly of the configuration is
\* on the disk and the invocation goes on to the launch profile; on failure
\* it shows the error and returns
BuildProjectDone ==
    /\ IsSome(launch)
    /\ Val(launch).pc = "build"
    /\ \E success \in BOOLEAN :
           /\ builtFiles' = IF success
                             THEN builtFiles \cup {BuildOutput(Val(currentProject), Val(launch).config)}
                             ELSE builtFiles
           /\ launch' = Some([Val(launch) EXCEPT !.pc = IF success THEN "profile" ELSE "done",
                                                  !.built = success])
    /\ UNCHANGED <<currentProject, launchSettings, currentBuildConfig,
                   currentLaunchProfile, buildConfig, launchCount>>
    /\ UNCHANGED <<parseVars, testResults, lcovVars, priorCoverage, coverageData,
                   fileVars, projects, detectVars,
                   testRunVars, covRunVars>>

\* the profile is determined; runProject calls dotnetCli.runProject(path,
\* profileName), debugProject creates the launch configuration and starts
\* the debugger with it
LaunchStart ==
    /\ IsSome(launch)
    /\ Val(launch).pc = "profile"
    /\ \E answer \in QuickPickAnswers(launchSettings) :
           LET profileName == profileNameOf(launchSettings, answer)
               config == createLaunchConfiguration(Val(currentProject), profileName,
                                                   launchSettings, builtFiles)
           IN  launch' = Some([Val(launch) EXCEPT
                                   !.pc = "done",
                                   !.profileName = profileName,
                                   !.program = IF Val(launch).op = "debug"
                                               THEN Some(config.program) ELSE None])
    /\ UNCHANGED <<currentProject, launchSettings, builtFiles, currentBuildConfig,
                   currentLaunchProfile, buildConfig, launchCount>>
    /\ UNCHANGED <<parseVars, testResults, lcovVars, priorCoverage, coverageData,
                   fileVars, projects, detectVars,
                   testRunVars, covRunVars>>

NextLaunch ==
    \/ SelectBuildConfig
    \/ SelectLaunchProfile
    \/ RunProjectCall
    \/ DebugProjectCall
    \/ BuildProjectDone
    \/ LaunchStart

\* a project with or without launch profiles is selected; the disk may hold
\* the assembly of an earlier Debug build
InitLaunch ==
    /\ ParserIdle
    /\ testResults = <<>>
    /\ LcovIdle
    /\ CoverageEmpty
    /\ FileIdle
    /\ TestRunsIdle
    /\ ConfigDefault
    /\ CovRunsIdle
    /\ currentProject \in {Some(ConsoleProject), Some(WebProject)}
    /\ projects = <<AppProject>>
    /\ launchSettings \in LaunchSettingsFiles
    /\ builtFiles \in {{}, {BuildOutput(Val(currentProject), "Debug")}}
    /\ currentBuildConfig = "Debug"
    /\ currentLaunchProfile = None
    /\ buildConfig = "Debug"
    /\ launch = None
    /\ launchCount = 0
    /\ DetectIdle

SpecLaunch == InitLaunch /\ [][NextLaunch]_vars

---------------------------------------------------------------------------
(* SpecDetect: ProjectDetector.  A detectProjects invocation empties the   *)
(* list, awaits findFiles once per pattern and then parses the files it    *)
(* found; another invocation may begin at each of these awaits.            *)

\* the number of detectProjects invocations considered
MaxDetects == 3

\* the search patterns of a folder, by extension (part_002:41-45)
Patterns == <<".csproj", ".fsproj", ".sln">>

\* a console application, a test project, a solution and a project file
\* whose read throws
AppFile ==
    [path |-> "app.csproj", name |-> "app", ext |-> ".csproj",
     content |-> Some([refs |-> {"<OutputType>Exe</OutputType>"},
                       targetFramework |-> Some("net8.0")])]

TestFile ==
    [path |-> "t1.csproj", name |-> "t1", ext |-> ".csproj",
     content |-> Some([refs |-> {"xunit"}, targetFramework |-> Some("net8.0")])]

SlnFile ==
    [path |-> "all.sln", name |-> "all", ext |-> ".sln",
     content |-> Some([refs |-> {}, targetFramework |-> None])]

BadFile ==
    [path |-> "bad.fsproj", name |-> "bad", ext |-> ".fsproj", content |-> None]

\* the project files the folder may hold, in the order of a search
FileOrder == <<AppFile, TestFile, BadFile, SlnFile>>

WorkspaceFiles == {FileOrder[k] : k \in 1..Len(FileOrder)}

\* vscode.workspace.findFiles for one pattern: the files of the folder with
\* the pattern's extension (part_002:49-54)
findFiles(files, ext) == SelectSeq(FileOrder, LAMBDA f : f \in files /\ f.ext = ext)

\* DotNetCli.getProjectInfo of a readable file (dotnetCli.ts:179-230)
getProjectInfo(file) ==
    LET projectContent == Val(file.content)
        isTest == projectContent.refs \cap {"Microsoft.NET.Test.Sdk", "xunit", "nunit", "MSTest"} # {}
    IN [path |-> file.path,
        name |-> file.name,
        type |-> IF isTest THEN "test"
                 ELSE IF "Microsoft.AspNetCore" \in projectContent.refs THEN "web"
                 ELSE IF "<OutputType>Exe</OutputType>" \in projectContent.refs THEN "console"
                 ELSE "library",
        targetFramework |-> IF IsSome(projectContent.targetFramework)
                            THEN Val(projectContent.targetFramework)
                            ELSE IF "net4" \in projectContent.refs THEN "net48"
                            ELSE IF "netstandard" \in projectContent.refs THEN "netstandard2.1"
                            ELSE "",
        isTestProject |-> isTest]

\* the loop over the files found (part_002:70-91): a solution, a file no
\* longer on the disk and a file whose read throws are passed over, the
\* information of every other file is pushed to this.projects
RECURSIVE ParseProjectFiles(_, _, _)
ParseProjectFiles(list, projectFiles, files) ==
    IF projectFiles = <<>> THEN list
    ELSE LET file == Head(projectFiles)
             skip == file.ext = ".sln" \/ file \notin files \/ file.content = None
         IN ParseProjectFiles(IF skip THEN list ELSE Append(list, getProjectInfo(file)),
                              Tail(projectFiles), files)

\* the project a detection selects: the first that is no test project, else
\* the first (part_002:99-102)
PreferredProject(list) ==
    LET nonTestProjects == SelectSeq(list, LAMBDA p : ~p.isTestProject)
    IN IF Len(nonTestProjects) > 0 THEN nonTestProjects[1] ELSE list[1]

\* detectProjects up to its first await (part_002:22-49): with detection
\* disabled or no folder open it returns, else it empties this.projects and
\* searches for the first pattern
DetectProjectsCall(trigger) ==
    /\ Len(detects) < MaxDetects
    /\ LET searching == autoDetectProjects /\ workspaceFolders # <<>>
       IN /\ projects' = IF searching THEN <<>> ELSE projects
          /\ detects' = Append(detects,
                 [pc |-> IF searching THEN "find" ELSE "done",
                  pattern |-> 1,
                  projectFiles |-> <<>>,
                  trigger |-> trigger,
                  overlaps |-> \E d \in 1..Len(detects) : detects[d].pc # "done"])
    /\ UNCHANGED <<parseVars, testResults, lcovVars, priorCoverage, coverageData,
                   fileVars, launchVars, autoDetectProjects, workspaceFolders,
                   quickPick, projectsChanged, testRunVars, covRunVars>>

\* the command dotnet.refreshProjects (extension.ts:185-187) and
\* initialize (part_002:18-20)
RefreshCommand == DetectProjectsCall("command") /\ workspace' = workspace

\* the file system watcher (extension.ts:239-242): a project file is
\* created, deleted or changed in the folder and refresh is called
WatcherEvent ==
    /\ workspaceFolders # <<>>
    /\ \E f \in WorkspaceFiles, trigger \in {"create", "delete", "change"} :
           /\ trigger = "create" => f \notin workspace
           /\ trigger # "create" => f \in workspace
           /\ workspace' = IF trigger = "create" THEN workspace \cup {f}
                           ELSE IF trigger = "delete" THEN workspace \ {f}
                           ELSE workspace
           /\ DetectProjectsCall(trigger)

\* a findFiles promise of invocation d resolves (part_002:49-55); after the
\* last pattern the invocation runs to its end (part_002:63-105).
\* getProjectInfo awaits nothing, so the continuations of the parsing loop
\* run one after the other with no event handler in between.
FindFilesDone ==
    \E d \in 1..Len(detects) :
        /\ detects[d].pc = "find"
        /\ LET projectFiles == detects[d].projectFiles
                                   \o findFiles(workspace, Patterns[detects[d].pattern])
               list == ParseProjectFiles(projects, projectFiles, workspace)
           IN IF detects[d].pattern < Len(Patterns)
              THEN /\ detects' = [detects EXCEPT ![d].pattern = @ + 1,
                                                 ![d].projectFiles = projectFiles]
                   /\ UNCHANGED <<projects, currentProject, projectsChanged>>
              ELSE /\ detects' = [detects EXCEPT ![d].pc = "done",
                                                 ![d].projectFiles = projectFiles]
                   /\ IF projectFiles = <<>>
                      THEN UNCHANGED <<projects, currentProject, projectsChanged>>
                      ELSE /\ projects' = list
                           /\ IF list = <<>>
                              THEN UNCHANGED <<currentProject, projectsChanged>>
                              ELSE /\ currentProject' = Some(PreferredProject(list))
                                   /\ projectsChanged' = Some(list)
        /\ UNCHANGED <<parseVars, testResults, lcovVars, priorCoverage, coverageData,
                       fileVars, launchSettings, builtFiles, currentBuildConfig,
                       currentLaunchProfile, buildConfig, launch, launchCount,
                       workspace, autoDetectProjects, workspaceFolders, quickPick,
                       testRunVars, covRunVars>>

\* selectProject up to its await (part_002:121-136): the quick pick shows
\* the projects of the list as it is now
SelectProjectCall ==
    /\ quickPick = None
    /\ projects # <<>>
    /\ quickPick' = Some(projects)
    /\ UNCHANGED <<parseVars, testResults, lcovVars, priorCoverage, coverageData,
                   fileVars, projects, launchVars, workspace, autoDetectProjects,
                   workspaceFolders, detects, projectsChanged, testRunVars, covRunVars>>

\* the quick pick is answered (part_002:138-140): item k is chosen, or the
\* pick is dismissed (k = 0); setCurrentProject (part_002:116-119)
ShowQuickPickDone ==
    /\ IsSome(quickPick)
    /\ \E k \in 0..Len(Val(quickPick)) :
           currentProject' = IF k = 0 THEN currentProject ELSE Some(Val(quickPick)[k])
    /\ quickPick' = None
    /\ UNCHANGED <<parseVars, testResults, lcovVars, priorCoverage, coverageData,
                   fileVars, projects, launchSettings, builtFiles, currentBuildConfig,
                   currentLaunchProfile, buildConfig, launch, launchCount,
                   workspace, autoDetectProjects, workspaceFolders, detects,
                   projectsChanged, testRunVars, covRunVars>>

\* RunDebugManager.selectProjectIfNeeded with one project in the list
\* (runDebugManager.ts:684-687): setCurrentProject(projects[0])
SelectProjectIfNeeded ==
    /\ Len(projects) = 1
    /\ currentProject' = Some(projects[1])
    /\ UNCHANGED <<parseVars, testResults, lcovVars, priorCoverage, coverageData,
                   fileVars, projects, launchSettings, builtFiles, currentBuildConfig,
                   currentLaunchProfile, buildConfig, launch, launchCount,
                   detectVars, testRunVars, covRunVars>>

NextDetect ==
    \/ RefreshCommand
    \/ WatcherEvent
    \/ FindFilesDone
    \/ SelectProjectCall
    \/ ShowQuickPickDone
    \/ SelectProjectIfNeeded

\* the extension as activated, before initialize: a folder is open or not,
\* with any of the project files in it
InitDetect ==
    /\ ParserIdle
    /\ testResults = <<>>
    /\ LcovIdle
    /\ CoverageEmpty
    /\ FileIdle
    /\ projects = <<>>
    /\ LaunchIdle
    /\ TestRunsIdle
    /\ ConfigDefault
    /\ CovRunsIdle
    /\ autoDetectProjects \in BOOLEAN
    /\ workspaceFolders \in {<<>>, <<"ws">>}
    /\ workspace \in (IF workspaceFolders = <<>> THEN {{}} ELSE SUBSET WorkspaceFiles)
    /\ detects = <<>>
    /\ quickPick = None
    /\ projectsChanged = None

SpecDetect == InitDetect /\ [][NextDetect]_vars

---------------------------------------------------------------------------
(* Properties of parseTestResults *)

\* the outcomes whose terminal marker a line shows
MarkerOutcomes(line) ==
    {o \in {"Passed"} : Includes(line, "Passed!") \/ MatchesGlyph(line, "CHECK")}
    \cup {o \in {"Failed"} : Includes(line, "Failed!") \/ MatchesGlyph(line, "CROSS")}
    \cup {o \in {"Skipped"} : Includes(line, "Skipped")}

\* a line that opens a record: a "Test Name:" line that is no terminal marker
IsNameMarker(line) == MarkerOutcomes(line) = {} /\ MatchesLabelValue(line, "test name:")

\* a record is open when line n is scanned: a name marker precedes it with no
\* terminal marker in between
OpenBefore(lines, n) ==
    \E m \in 1..(n - 1) :
        /\ IsNameMarker(lines[m])
        /\ \A k \in (m + 1)..(n - 1) : MarkerOutcomes(lines[k]) = {}

\* the terminal markers scanned while a record is open
SealingLines(lines) ==
    {n \in 1..Len(lines) : MarkerOutcomes(lines[n]) # {} /\ OpenBefore(lines, n)}

\* C1: a terminal marker scanned while a record is open appends that record, with
\* the marker's outcome, to the end of the result sequence and clears the slot;
\* no other line changes the result sequence, so the outcomes are returned in the
\* order of their terminal markers.
C1_SealedInMarkerOrder ==
    [][ (pcParse = "scan" /\ i' = i + 1) =>
            IF MarkerOutcomes(output[i]) # {} /\ IsSome(currentTest)
            THEN /\ currentTest' = None
                 /\ Len(results') = Len(results) + 1
                 /\ SubSeq(results', 1, Len(results)) = results
                 /\ IsSome(results'[Len(results')].outcome)
                 /\ Val(results'[Len(results')].outcome) \in MarkerOutcomes(output[i])
                 /\ [results'[Len(results')] EXCEPT !.outcome = None] = Val(currentTest)
            ELSE results' = results ]_vars

\* scenario A of spec.md has been parsed to its two outcomes, in order
C1_Witness ==
    /\ pcParse = "returned"
    /\ output = ScenarioA
    /\ results =
         << [name |-> Some(<<"Addition_ReturnsSum">>), outcome |-> Some("Passed"),
             duration |-> Some(12), errorMessage |-> None, stackTrace |-> None],
            [name |-> Some(<<"Division_ByZero_Throws">>), outcome |-> Some("Failed"),
             duration |-> None, errorMessage |-> Some(<<"DivideByZeroException">>),
             stackTrace |-> None] >>

\* C2: the returned sequence holds one outcome per terminal marker scanned while
\* a record was open and nothing else: a record still open at the end of the input
\* is not in it, and every returned record carries an outcome.
C2_OpenRecordDropped ==
    pcParse = "returned" =>
        /\ Len(results) = Cardinality(SealingLines(output))
        /\ \A k \in 1..Len(results) : IsSome(results[k].outcome)
        /\ (Len(output) = 1 /\ IsNameMarker(output[1]) => results = <<>>)

\* a name marker followed by the end of the input: the record is open, nothing
\* is returned
C2_Witness ==
    /\ pcParse = "returned"
    /\ Len(output) = 1
    /\ IsNameMarker(output[1])
    /\ IsSome(currentTest)
    /\ results = <<>>

\* C3: a text parsed again, whatever was parsed and stored in between, gives the
\* sequence its first parse gave.
C3_ReparseEqual ==
    (pcParse = "returned" /\ IsSome(memoOutput) /\ output = Val(memoOutput))
        => results = Val(memoResults)

\* the remembered text parsed again, right after a text that left a record open
\* and while the store holds another text's results
C3_Witness ==
    /\ pcParse = "returned"
    /\ IsSome(prevOutput)
    /\ Val(prevOutput) = << <<"Test Name:", " ", "B">> >>
    /\ output = Val(memoOutput)
    /\ output[1] = <<"Passed!">>
    /\ results = Val(memoResults)

---------------------------------------------------------------------------
(* Properties of parseLcovReport *)

\* the sections of an LCOV text that are closed: <<s, e>> with an "SF:" line at
\* s, the line end_of_record at e, and neither of the two in between
ClosedSections(lines) ==
    {sec \in (1..Len(lines)) \X (1..Len(lines)) :
        /\ sec[1] < sec[2]
        /\ StartsWith(lines[sec[1]], "SF:")
        /\ lines[sec[2]] = <<"end_of_record">>
        /\ \A k \in (sec[1] + 1)..(sec[2] - 1) :
               ~StartsWith(lines[k], "SF:") /\ lines[k] # <<"end_of_record">>}

\* the file path of a section: what follows "SF:"
SectionPath(lines, sec) == Tail(lines[sec[1]])

\* for each file path, its last closed section
LastClosedSections(lines) ==
    {sec \in ClosedSections(lines) :
        \A other \in ClosedSections(lines) :
            SectionPath(lines, other) = SectionPath(lines, sec) => other[2] <= sec[2]}

\* the tracked lines of a section: its lines of the form DA:<line>,<hits>
TrackedLines(lines, sec) == {k \in (sec[1] + 1)..(sec[2] - 1) : MatchesDA(lines[k])}

HitLines(lines, sec) == {k \in TrackedLines(lines, sec) : IntVal(lines[k][4]) > 0}

\* the tracked lines of lines[a..b] as entries {line, covered}, in order
RECURSIVE DataEntries(_, _, _)
DataEntries(lines, a, b) ==
    IF a > b THEN <<>>
    ELSE (IF MatchesDA(lines[a])
          THEN << [line |-> IntVal(lines[a][2]), covered |-> IntVal(lines[a][4]) > 0] >>
          ELSE <<>>) \o DataEntries(lines, a + 1, b)

\* C5: when end_of_record closes a section, the record stored for the section's
\* file has percentage (tracked lines with hits > 0) / (tracked lines) x 100, and
\* exactly 0, not NaN, when the section has no tracked line; 50 for the lines
\* [(1, covered), (2, uncovered)] and 200/3 for [(1, c), (2, u), (3, c)].
C5_LcovPercentage ==
    [][ (pcLcov = "scan" /\ lcovPos' = lcovPos + 1) =>
            \A sec \in ClosedSections(lcovContent) :
                sec[2] = lcovPos =>
                    /\ MapHas(coverageData', SectionPath(lcovContent, sec))
                    /\ LET rec == Val(MapGet(coverageData', SectionPath(lcovContent, sec)))
                           total == Cardinality(TrackedLines(lcovContent, sec))
                           covered == Cardinality(HitLines(lcovContent, sec))
                       IN  /\ ~IsNaN(rec.coverage)
                           /\ rec.coverage.d > 0
                           /\ IF total = 0
                              THEN rec.coverage = Num(0)
                              ELSE rec.coverage.n * total = covered * 100 * rec.coverage.d
                           /\ (rec.lines = << [line |-> 1, covered |-> TRUE],
                                              [line |-> 2, covered |-> FALSE] >>
                                  => rec.coverage = Num(50))
                           /\ (rec.lines = << [line |-> 1, covered |-> TRUE],
                                              [line |-> 2, covered |-> FALSE],
                                              [line |-> 3, covered |-> TRUE] >>
                                  => rec.coverage = Rat(200, 3)) ]_vars

\* the three sections of ScenarioThreeSections are stored with 0, 50 and 200/3
C5_Witness ==
    /\ pcLcov = "done"
    /\ lcovContent = ScenarioThreeSections
    /\ MapGet(coverageData, <<"a.cs">>) =
           Some([filePath |-> <<"a.cs">>, coverage |-> Num(0), lines |-> <<>>])
    /\ MapGet(coverageData, <<"src/math.cs">>) =
           Some([filePath |-> <<"src/math.cs">>, coverage |-> Num(50),
                 lines |-> << [line |-> 1, covered |-> TRUE],
                              [line |-> 2, covered |-> FALSE] >>])
    /\ Val(MapGet(coverageData, <<"b.cs">>)).coverage = [n |-> 200, d |-> 3]

\* C6: after an LCOV parse the store holds its earlier records and, for exactly
\* the file paths of the closed sections, the record of the path's last closed
\* section with that section's tracked lines; nothing is stored for a section
\* replaced by a later "SF:", for DA lines outside a section, for a repeated
\* end_of_record or for an unterminated last section.
C6_LcovClosedSectionsOnly ==
    pcLcov = "done" =>
        /\ MapKeys(coverageData) =
               MapKeys(priorCoverage)
               \cup {SectionPath(lcovContent, sec) : sec \in ClosedSections(lcovContent)}
        /\ \A k \in MapKeys(priorCoverage) :
               k \notin {SectionPath(lcovContent, sec) : sec \in ClosedSections(lcovContent)}
                   => MapGet(coverageData, k) = MapGet(priorCoverage, k)
        /\ \A sec \in LastClosedSections(lcovContent) :
               LET rec == Val(MapGet(coverageData, SectionPath(lcovContent, sec)))
               IN  /\ rec.filePath = SectionPath(lcovContent, sec)
                   /\ rec.lines = DataEntries(lcovContent, sec[1] + 1, sec[2] - 1)

\* a section of a.cs with a tracked line is replaced by "SF:b.cs" and lost: only
\* b.cs is stored
C6_Witness ==
    /\ pcLcov = "done"
    /\ priorCoverage = <<>>
    /\ lcovContent = << <<"SF:", "a.cs">>, <<"DA:", "1", ",", "5">>,
                        <<"SF:", "b.cs">>, <<"end_of_record">> >>
    /\ MapKeys(coverageData) = {<<"b.cs">>}

---------------------------------------------------------------------------
(* Properties of the coverage store *)

\* the parser the latest report file was handed to and the records it upserted,
\* in the order of the upserts
LastUpserts ==
    LET file == Val(parsedFile)
        parser == ParserOf(Val(parsedFormat), file.name)
    IN  CASE parser = "cobertura" -> CoberturaUpserts(file.content).records
          [] parser = "json" -> JsonUpserts(file.content).records
          [] parser = "lcov" /\ file.content.fmt = "lcov" ->
                 LET lines == file.content.lcov
                     ends == {n \in 1..Len(lines) : \E sec \in ClosedSections(lines) : sec[2] = n}
                     RECURSIVE InOrder(_)
                     InOrder(n) ==
                         IF n > Len(lines) THEN <<>>
                         ELSE IF n \in ends
                         THEN LET sec == CHOOSE c \in ClosedSections(lines) : c[2] = n
                              IN  << [filePath |-> SectionPath(lines, sec),
                                      coverage |-> LcovPercentage(DataEntries(lines, sec[1], sec[2])),
                                      lines |-> DataEntries(lines, sec[1], sec[2])] >>
                                  \o InOrder(n + 1)
                         ELSE InOrder(n + 1)
                 IN  InOrder(1)
          [] OTHER -> <<>>

\* C4: after any sequence of report parses the store holds at most one record
\* per file path; of the records a parse upserts for one path the store holds
\* exactly the latest, whatever was stored for that path before (an earlier
\* record's lines are not merged in); the records of paths the parse does not
\* describe stay as they were.
C4_OneRecordPerPathLastWins ==
    /\ \A a, b \in 1..Len(coverageData) :
           coverageData[a][1] = coverageData[b][1] => a = b
    /\ \A a \in 1..Len(coverageData) : coverageData[a][2].filePath = coverageData[a][1]
    /\ IsSome(parsedFile) =>
           LET ups == LastUpserts
               described == {ups[k].filePath : k \in 1..Len(ups)}
           IN  /\ \A k \in 1..Len(ups) :
                      (\A j \in (k + 1)..Len(ups) : ups[j].filePath # ups[k].filePath)
                          => MapGet(coverageData, ups[k].filePath) = Some(ups[k])
               /\ MapKeys(coverageData) = MapKeys(priorCoverage) \cup described
               /\ \A path \in MapKeys(priorCoverage) \ described :
                      MapGet(coverageData, path) = MapGet(priorCoverage, path)

\* a.cs was stored with its line 7 by a Cobertura parse; an LCOV parse then
\* described a.cs with its line 1, and the store holds that line only
C4_Witness ==
    /\ IsSome(parsedFile)
    /\ Val(parsedFile).content = LcovReportOneFile
    /\ ParserOf(Val(parsedFormat), Val(parsedFile).name) = "lcov"
    /\ MapHas(priorCoverage, <<"a.cs">>)
    /\ MapHas(priorCoverage, <<"b.cs">>)
    /\ Val(MapGet(priorCoverage, <<"a.cs">>)).lines = <<[line |-> 7, covered |-> TRUE]>>
    /\ Len(coverageData) = Len(priorCoverage)
    /\ Val(MapGet(coverageData, <<"a.cs">>)).lines = <<[line |-> 1, covered |-> TRUE]>>

\* the sum of the stored percentages over the common denominator den
RECURSIVE ScaledSum(_, _)
ScaledSum(recs, den) ==
    IF recs = <<>> THEN 0
    ELSE Head(recs).coverage.n * (den \div Head(recs).coverage.d) + ScaledSum(Tail(recs), den)

RECURSIVE CommonDen(_)
CommonDen(recs) ==
    IF recs = <<>> THEN 1 ELSE Head(recs).coverage.d * CommonDen(Tail(recs))

\* C7: getOverallCoverage is 0 for the empty store and otherwise the sum of
\* the stored percentages divided by the number of stored records, each file
\* counting once whatever its number of lines; for two records of 100 and 50
\* it is 75.
C7_UnweightedMean ==
    LET recs == MapValues(coverageData)
        mean == getOverallCoverage(coverageData)
    IN  /\ Len(recs) = 0 => mean = Num(0)
        /\ Len(recs) > 0 =>
               /\ mean.d > 0
               /\ mean.n * Len(recs) * CommonDen(recs) = ScaledSum(recs, CommonDen(recs)) * mean.d
        /\ (Len(recs) = 2 /\ {recs[1].coverage, recs[2].coverage} = {Num(100), Num(50)})
               => mean = Num(75)

\* two stored records of 100 and 50 with different numbers of lines, mean 75
C7_Witness ==
    /\ Len(coverageData) = 2
    /\ {coverageData[1][2].coverage, coverageData[2][2].coverage} = {Num(100), Num(50)}
    /\ Len(coverageData[1][2].lines) # Len(coverageData[2][2].lines)
    /\ getOverallCoverage(coverageData) = Num(75)

---------------------------------------------------------------------------
(* Properties of the test-result store *)

\* the positions of the stored outcomes: <<entry, index within the entry>>
StoredOutcomes ==
    UNION {{<<e, k>> : k \in 1..Len(testResults[e][2])} : e \in 1..Len(testResults)}

OutcomeAt(pos) == testResults[pos[1]][2][pos[2]].outcome

\* C8: getTestSummary counts the stored outcomes of all project paths together:
\* total is their number, each has exactly one of Passed, Failed and Skipped,
\* the three counts are the numbers of outcomes with that result, and
\* total = passed + failed + skipped.
C8_SummaryCountsFlattened ==
    LET summary == getTestSummary(testResults)
    IN  /\ summary.total = Cardinality(StoredOutcomes)
        /\ \A pos \in StoredOutcomes :
               OutcomeAt(pos) \in {Some("Passed"), Some("Failed"), Some("Skipped")}
        /\ summary.passed = Cardinality({pos \in StoredOutcomes : OutcomeAt(pos) = Some("Passed")})
        /\ summary.failed = Cardinality({pos \in StoredOutcomes : OutcomeAt(pos) = Some("Failed")})
        /\ summary.skipped = Cardinality({pos \in StoredOutcomes : OutcomeAt(pos) = Some("Skipped")})
        /\ summary.total = summary.passed + summary.failed + summary.skipped

\* two projects with stored outcomes, all three results among them
C8_Witness ==
    /\ Len(testResults) = 2
    /\ testResults[1][2] # <<>>
    /\ testResults[2][2] # <<>>
    /\ getTestSummary(testResults).passed > 0
    /\ getTestSummary(testResults).failed > 0
    /\ getTestSummary(testResults).skipped > 0

\* C9: when a run of project p has been stored, the sequence stored for p is
\* exactly what was parsed from that run's output, the sequences of all other
\* project paths are as before, and the summary the subscriber read on the
\* notification is the summary of the updated store.
C9_RunReplacesAndNotifies ==
    (IsSome(testEvent) /\ Val(testEvent).op = "stored") =>
        LET ev == Val(testEvent)
        IN  /\ MapGet(testResults, ev.path) = Some(parseTestResults(ev.output))
            /\ MapKeys(testResults) = MapKeys(ev.before) \cup {ev.path}
            /\ Len(testResults) = Cardinality(MapKeys(testResults))
            /\ \A other \in MapKeys(ev.before) \ {ev.path} :
                   MapGet(testResults, other) = MapGet(ev.before, other)
            /\ notifiedSummary = Some(getTestSummary(testResults))

\* a run of t1 replaced two stored outcomes of t1 by one, t2's outcomes stayed,
\* and the subscriber read the summary of the new store
C9_Witness ==
    /\ IsSome(testEvent)
    /\ Val(testEvent).op = "stored"
    /\ Val(testEvent).path = "t1"
    /\ MapHas(Val(testEvent).before, "t2")
    /\ MapGet(Val(testEvent).before, "t1") = Some(parseTestResults(ScenarioA))
    /\ Len(Val(MapGet(testResults, "t1"))) = 1
    /\ Val(MapGet(testResults, "t2")) # <<>>
    /\ notifiedSummary = Some(getTestSummary(testResults))
    /\ notifiedSummary # Some(getTestSummary(Val(testEvent).before))

---------------------------------------------------------------------------
(* Properties of runTestsWithCoverage *)

\* C10: a step that upserts a coverage record fires no coverage-changed
\* notification; a notification is fired only while no report is partly
\* stored; an invocation fires at most once, and only at its end, after the
\* upserts of all its reports; and every invocation that got past its
\* precondition checks and has ended has fired exactly once.
C10_NotifiedOnceAfterAllUpserts ==
    [][ /\ Val(covEvent').op \in {"upsert", "line"} =>
               coverageNotifications' = coverageNotifications
        /\ coverageNotifications' # coverageNotifications =>
               \A r \in 1..Len(covRuns) :
                   covRuns[r].records = <<>> /\ covRuns[r].lines = <<>>
        /\ \A r \in 1..Len(covRuns') :
               /\ covRuns'[r].fired <= 1
               /\ covRuns'[r].fired = 1 => covRuns'[r].pc = "done"
               /\ (covRuns'[r].pc = "done" /\ covRuns'[r].checked) => covRuns'[r].fired = 1
      ]_vars

---------------------------------------------------------------------------
(* Properties of overlapping runs *)

\* C11: invocations are neither queued nor merged (an invocation that awaits
\* has invoked dotnet test for its project, whatever the others do), and for
\* every project path the stored sequence is the parse of the output of the
\* run of that path that completed last, whichever invocation started first.
C11_LastToFinishWins ==
    /\ \A r \in 1..Len(testRuns) :
           testRuns[r].pc = "await" =>
               testRuns[r].invoked[Len(testRuns[r].invoked)] = Head(testRuns[r].queue)
    /\ MapKeys(lastStored) = MapKeys(testResults)
    /\ \A e \in 1..Len(lastStored) :
           MapGet(testResults, lastStored[e][1])
               = Some(parseTestResults(lastStored[e][2].output))

\* both invocations have stored a run of t1; the second-started stored first,
\* the first-started last, and the store holds the first-started one's results
C11_Witness ==
    /\ Len(testRuns) = 2
    /\ testRuns[1].outcomes # <<>>
    /\ testRuns[2].outcomes # <<>>
    /\ testRuns[1].invoked[1] = "t1"
    /\ testRuns[2].invoked[1] = "t1"
    /\ testRuns[1].outcomes[1] = "stored"
    /\ testRuns[2].outcomes[1] = "stored"
    /\ Val(MapGet(lastStored, "t1")).run = 1
    /\ Val(testEvent).op = "stored"
    /\ Val(testEvent).path = "t1"
    /\ MapGet(Val(testEvent).before, "t1") # MapGet(testResults, "t1")

---------------------------------------------------------------------------
(* Properties of the choice of the parser *)

\* the parser the file's extension stands for
ParserOfExtension(name) ==
    IF EndsWith(name, ".xml") THEN "cobertura"
    ELSE IF EndsWith(name, ".json") THEN "json"
    ELSE IF EndsWith(name, ".lcov") THEN "lcov"
    ELSE "none"

\* C12: a report file is handed to the parser the format setting names when
\* the setting names cobertura, json or lcov, whatever the file's extension;
\* the extension decides only when the setting names none of the three.
C12_SettingBeforeExtension ==
    IsSome(parsedFile) =>
        LET parser == ParserOf(Val(parsedFormat), Val(parsedFile).name)
        IN  IF Val(parsedFormat) \in {"cobertura", "json", "lcov"}
            THEN parser = Val(parsedFormat)
            ELSE parser = ParserOfExtension(Val(parsedFile).name)

---------------------------------------------------------------------------
(* Properties of report discovery and of failures during a coverage run *)

\* C13: the candidate list holds every report file name both in the project
\* directory and in coverage/; when dotnet test has returned, the first
\* candidate that exists is the one parsed; when none of the report files
\* exists the store stays as it is and no error is logged or shown.
C13_FirstExistingCandidateParsed ==
    [][ Val(covEvent').op = "collected" =>
            LET c == Val(collected')
                existing == {loc \in ReportLocations : IsSome(c.disk[loc])}
            IN  /\ \A loc \in ReportLocations :
                       \E k \in 1..Len(CoverageFiles) : CoverageFiles[k] = loc
                /\ existing # {} =>
                       /\ c.parsed \in 1..Len(CoverageFiles)
                       /\ CoverageFiles[c.parsed] \in existing
                       /\ \A k \in 1..(c.parsed - 1) : CoverageFiles[k] \notin existing
                /\ existing = {} =>
                       /\ c.parsed = 0
                       /\ coverageData' = coverageData
                       /\ Val(covEvent').message = ""
                       /\ covRuns'[c.run].parseErrors = covRuns[c.run].parseErrors
                       /\ covRuns'[c.run].failureMessages = covRuns[c.run].failureMessages
      ]_vars

\* C14: an invocation in which the parse of a report failed has logged the
\* failure and gone on: when it has ended it has invoked dotnet test for every
\* test project, in order, and has fired its final notification.
C14_ParseFailureDoesNotAbort ==
    \A r \in 1..Len(covRuns) :
        (covRuns[r].pc = "done" /\ covRuns[r].parseErrors > 0) =>
            /\ covRuns[r].invoked = TestProjectPaths(projects)
            /\ covRuns[r].fired = 1

\* C16: one invocation shows the user at most one warning or error about
\* failures, however many of its projects failed.
C16_FailuresReportedOnce ==
    \A r \in 1..Len(covRuns) : covRuns[r].failureMessages <= 1

---------------------------------------------------------------------------
(* Properties of runAllTests and of the command executor                   *)

\* C15: when dotnet test fails for a project (non-zero exit code, or killed
\* at the default timeout of 30 seconds) the executor throws an error that
\* holds the captured stdout and stderr, and the runAllTests invocation
\* notes that this project's run failed (hasErrors), which it does not for a
\* run that succeeded without any test outcome
C15_FailureSurfacedToCaller ==
    /\ (IsSome(testEvent) /\ Val(testEvent).op = "failed") =>
           LET proc == Val(Val(testEvent).proc)
               error == Val(Val(testEvent).error)
           IN  /\ proc.exitCode # 0 \/ proc.elapsed > DefaultTimeout
               /\ error.rejected
               /\ error.stdout = proc.stdout
               /\ error.stderr = proc.stderr
    /\ \A r \in 1..Len(testRuns) :
           testRuns[r].hasErrors
               <=> (\E k \in 1..Len(testRuns[r].outcomes) :
                        testRuns[r].outcomes[k] # "stored")

\* the number of runTestsForProject calls of a run that stored results
StoredCount(run) ==
    Cardinality({k \in 1..Len(run.outcomes) : run.outcomes[k] = "stored"})

\* C19: a runAllTests invocation invokes dotnet test for the test projects
\* of the project list, each once, in list order and one after the other
\* has returned, whether that one failed or not; it fires one notification
\* more after the last project has returned; with no test project it invokes
\* nothing and fires nothing
C19_EveryTestProjectRunOnce ==
    \A r \in 1..Len(testRuns) :
        LET run == testRuns[r]
            paths == TestProjectPaths(projects)
        IN  /\ Len(run.invoked) <= Len(paths)
            /\ run.invoked = SubSeq(paths, 1, Len(run.invoked))
            /\ Len(run.outcomes)
                   = Len(run.invoked) - (IF run.pc = "await" THEN 1 ELSE 0)
            /\ run.pc \in {"finish", "done"} => run.invoked = paths
            /\ run.pc \in {"await", "finish"} => run.fired = StoredCount(run)
            /\ (run.pc = "done" /\ paths # <<>>) => run.fired = StoredCount(run) + 1
            /\ paths = <<>> =>
                   run.pc = "done" /\ run.invoked = <<>> /\ run.fired = 0

C19_Witness ==
    /\ Len(testRuns) >= 1
    /\ testRuns[1].pc = "done"
    /\ testRuns[1].invoked = <<"t1", "t2">>
    /\ testRuns[1].outcomes = <<"failed", "stored">>
    /\ testRuns[1].fired = 2
    /\ projects = <<AppProject, TestProject1, TestProject2>>

---------------------------------------------------------------------------
(* Properties of the name markers of parseTestResults                      *)

\* the line is taken by one of the three terminal-marker branches
IsTerminalLine(line) ==
    IsPassedLine(line) \/ IsFailedLine(line) \/ IsSkippedLine(line)

\* C20: once the open record has a name, no line scanned while the record
\* stays open changes that name: neither a 'Test Name:' nor a 'Test Method:'
\* marker overwrites it
C20_NameSetOnlyWhenUnset ==
    [][ (/\ pcParse = "scan" /\ i' = i + 1
         /\ IsSome(currentTest) /\ Val(currentTest).name \notin {None, Some(<<>>)}
         /\ IsSome(currentTest')) =>
            Val(currentTest').name = Val(currentTest).name ]_vars

\* C20, amended: a 'Test Name:' marker always opens a new record that has
\* only the marker's name, whatever record was open; a 'Test Method:' marker
\* fills the name of the open record when that name is unset and changes
\* nothing otherwise; no other line changes the name of a record that stays
\* open
C20_TestNameOpensNewRecord ==
    [][ (pcParse = "scan" /\ i' = i + 1) =>
            LET line == output[i]
            IN  IF ~IsTerminalLine(line) /\ MatchesLabelValue(line, "test name:")
                THEN currentTest' = Some(NewTest(LabelValue(line)))
                ELSE IF ~IsTerminalLine(line) /\ MatchesLabelValue(line, "test method:")
                THEN IF IsSome(currentTest) /\ Val(currentTest).name \in {None, Some(<<>>)}
                     THEN currentTest' =
                              Some([Val(currentTest) EXCEPT !.name = Some(LabelValue(line))])
                     ELSE currentTest' = currentTest
                ELSE (IsSome(currentTest) /\ IsSome(currentTest')) =>
                         Val(currentTest').name = Val(currentTest).name ]_vars

C20_Witness ==
    /\ pcParse = "scan"
    /\ i = 3
    /\ Len(output) >= 2
    /\ output[1] = <<"Test Name:", " ", "A">>
    /\ output[2] = <<"Test Name:", " ", "B">>
    /\ currentTest = Some(NewTest(<<"B">>))

---------------------------------------------------------------------------
(* Properties of runProject and debugProject                               *)

\* C17: when debugProject has built the project and created its launch
\* configuration, the build was made with the build configuration selected
\* in the toolbar when debugProject was called, and the configuration's
\* program lies in the output directory of that build configuration
C17_LaunchProgramOfSelectedConfig ==
    (/\ IsSome(launch)
     /\ Val(launch).op = "debug"
     /\ Val(launch).pc = "done"
     /\ Val(launch).built) =>
        /\ Val(launch).config = Val(launch).selectedConfig
        /\ IsSome(Val(launch).program)
        /\ Val(Val(launch).program).config = Val(launch).selectedConfig

\* C18: when the toolbar has a current launch profile, the profile that
\* runProject passes to dotnet run, or debugProject to the launch
\* configuration, is that profile
C18_RunsWithToolbarProfile ==
    [][ (/\ IsSome(launch) /\ Val(launch).pc = "profile"
         /\ IsSome(launch') /\ Val(launch').pc = "done"
         /\ IsSome(currentLaunchProfile)) =>
            Val(launch').profileName = currentLaunchProfile ]_vars

---------------------------------------------------------------------------
(* Properties of the duration, error message and stack trace markers       *)

\* the token that follows position n of s, white space skipped
RECURSIVE TokenAfter(_, _)
TokenAfter(s, n) ==
    IF n > Len(s) THEN ""
    ELSE IF IsSpace(s[n]) THEN TokenAfter(s, n + 1)
    ELSE s[n]

\* the numerals of s that the unit token ms or s follows
NumeralsWithUnit(s) ==
    {n \in 1..Len(s) : IsNumeral(s[n]) /\ TokenAfter(s, n + 1) \in {"ms", "s"}}

\* C21: a 'Duration:' line scanned with a record open sets the duration to
\* the number when the unit token is ms and to the number times 1000 when
\* it is s; with no number, or with another unit token, the duration stays
\* as it was; a duration is never negative
C21_DurationInMilliseconds ==
    [][ (/\ pcParse = "scan" /\ i' = i + 1
         /\ IsSome(currentTest)
         /\ ~IsTerminalLine(output[i])
         /\ MatchesLabelValue(output[i], "duration:")) =>
            LET text == LabelValue(output[i])
                hits == NumeralsWithUnit(text)
                first == CHOOSE n \in hits : \A m \in hits : n <= m
            IN  /\ IsSome(currentTest')
                /\ Val(currentTest').duration =
                       IF hits = {} THEN Val(currentTest).duration
                       ELSE IF TokenAfter(text, first + 1) = "s"
                            THEN Some(NumVal(text[first]) * 1000)
                            ELSE Some(NumVal(text[first]))
                /\ IsSome(Val(currentTest').duration) =>
                       Val(Val(currentTest').duration) >= 0 ]_vars

\* the number of non-blank lines from line j on, one after the other
RECURSIVE NonBlankRun(_, _)
NonBlankRun(lines, j) ==
    IF j <= Len(lines) /\ Trim(lines[j]) # <<>>
    THEN 1 + NonBlankRun(lines, j + 1)
    ELSE 0

\* C22: a 'Stack Trace:' line scanned with a record open stores as stack
\* trace the lines that follow it up to the first blank line or the end of
\* the text, 20 lines at most (exactly the next 20 when 20 or more non-blank
\* lines follow), and leaves the record open and the results as they were
C22_TraceOfTwentyLines ==
    [][ (/\ pcParse = "scan" /\ i' = i + 1
         /\ IsSome(currentTest)
         /\ ~IsTerminalLine(output[i])
         /\ MatchesLabel(output[i], "stack trace:")) =>
            LET run == NonBlankRun(output, i + 1)
                taken == IF run < 20 THEN run ELSE 20
            IN  /\ IsSome(currentTest')
                /\ Val(currentTest').stackTrace = Some(SubSeq(output, i + 1, i + taken))
                /\ results' = results ]_vars

\* C23: no outcome of a returned sequence whose result is Passed or Skipped
\* has an error message or a stack trace
C23_DetailsOnlyOnFailed ==
    pcParse = "returned" =>
        \A k \in 1..Len(results) :
            results[k].outcome # Some("Failed") =>
                /\ results[k].errorMessage = None
                /\ results[k].stackTrace = None

\* the lines before line n that match the 'Test Name:' pattern
NameLinesBefore(lines, n) ==
    {k \in 1..(n - 1) : MatchesLabelValue(lines[k], "test name:")}

\* C25: a terminal marker appends one outcome and empties the slot exactly
\* when a record is open, whatever its name; scanned with the slot empty it
\* appends nothing; no other line appends; so the outcomes never outnumber
\* the 'Test Name:' lines scanned
C25_TerminalSealsOnlyOpenRecord ==
    [][ (pcParse = "scan" /\ i' = i + 1) =>
            /\ Len(results') =
                   Len(results) + (IF MarkerOutcomes(output[i]) # {} /\ IsSome(currentTest)
                                   THEN 1 ELSE 0)
            /\ MarkerOutcomes(output[i]) # {} => currentTest' = None
            /\ Len(results') <= Cardinality(NameLinesBefore(output, i')) ]_vars

C25_Witness ==
    /\ pcParse = "returned"
    /\ output = << <<"Test Name:", " ">>, <<"Passed!">>, <<"Failed!">> >>
    /\ Len(results) = 1
    /\ results[1].name = Some(<<>>)
    /\ results[1].outcome = Some("Passed")

\* the outcome of the first terminal class the line matches
FirstOutcome(line) ==
    IF Includes(line, "Passed!") \/ MatchesGlyph(line, "CHECK") THEN "Passed"
    ELSE IF Includes(line, "Failed!") \/ MatchesGlyph(line, "CROSS") THEN "Failed"
    ELSE "Skipped"

\* C29: a line that shows Passed!, Failed! or Skipped anywhere is handled as
\* a terminal marker only, the first of the three it matches: it seals the
\* open record as that record stands, name and error message untouched, and
\* with no record open it changes nothing; it never opens a record
C29_TerminalWordsTakePrecedence ==
    [][ (pcParse = "scan" /\ i' = i + 1 /\ MarkerOutcomes(output[i]) # {}) =>
            /\ currentTest' = None
            /\ results' = IF IsSome(currentTest)
                           THEN Append(results, [Val(currentTest) EXCEPT
                                                     !.outcome = Some(FirstOutcome(output[i]))])
                           ELSE results ]_vars

C29_Witness ==
    /\ pcParse = "scan"
    /\ i = 3
    /\ output = <<NameLineA, <<"Test Name:", " ", "Failed!", "B">>, <<"Passed!">> >>
    /\ currentTest = None
    /\ results = <<[NewTest(<<"A">>) EXCEPT !.outcome = Some("Failed")]>>

---------------------------------------------------------------------------
(* Properties of the Cobertura parser and of a parse that fails            *)

\* the class elements of the packages pkgs, in document order
RECURSIVE ReportClasses(_)
ReportClasses(pkgs) ==
    IF pkgs = <<>> THEN <<>>
    ELSE (IF IsSome(Head(pkgs).classes) THEN Val(Head(pkgs).classes) ELSE <<>>)
         \o ReportClasses(Tail(pkgs))

\* C24: after a Cobertura parse that did not fail, for every class element
\* with a line-rate attribute (the last one of its file name) the store
\* holds under the class's file name a record with that file path, the
\* line-rate times 100 as percentage (100 for a line-rate of 1) and one
\* line entry per line element, covered when its hits are above 0
C24_CoberturaClassStored ==
    (/\ IsSome(parsedFile)
     /\ ParserOf(Val(parsedFormat), Val(parsedFile).name) = "cobertura"
     /\ Val(parsedFile).content.fmt = "xml"
     /\ IsSome(Val(parsedFile).content.xml)
     /\ ~CoberturaUpserts(Val(parsedFile).content).threw) =>
        LET classes == ReportClasses(Val(Val(parsedFile).content.xml))
        IN  \A k \in 1..Len(classes) :
                (/\ IsSome(classes[k].attrs)
                 /\ IsSome(Val(classes[k].attrs).line_rate)
                 /\ \A j \in (k + 1)..Len(classes) :
                        Val(classes[j].attrs).filename # Val(classes[k].attrs).filename) =>
                    LET cls == classes[k]
                        rate == FloatVal(Val(Val(cls.attrs).line_rate))
                        rec == MapGet(coverageData, Val(cls.attrs).filename)
                    IN  /\ IsSome(rec)
                        /\ Val(rec).filePath = Val(cls.attrs).filename
                        /\ Val(rec).coverage = RatMul(rate, Num(100))
                        /\ rate = Num(1) => Val(rec).coverage = Num(100)
                        /\ Len(Val(rec).lines) = Len(cls.lines)
                        /\ \A n \in 1..Len(cls.lines) :
                               /\ Val(rec).lines[n].line = IntVal(cls.lines[n].number)
                               /\ Val(rec).lines[n].covered
                                      = (IntVal(Val(cls.lines[n].hits)) > 0)

\* the elements of elems before the first one that is malformed (has no
\* value): all of them when none is
RECURSIVE BeforeMalformed(_)
BeforeMalformed(elems) ==
    IF elems = <<>> \/ ~IsSome(Head(elems)) THEN <<>>
    ELSE <<Val(Head(elems))>> \o BeforeMalformed(Tail(elems))

\* the file paths a failed parse of the report described before it failed:
\* those of the classes before the first class element without attributes,
\* or of the documents of the modules before the first null module
DescribedBeforeFailure(parser, content) ==
    IF parser = "cobertura" /\ content.fmt = "xml" /\ IsSome(content.xml)
    THEN LET classes == ReportClasses(Val(content.xml))
             good == BeforeMalformed([k \in 1..Len(classes) |-> classes[k].attrs])
         IN  {good[k].filename : k \in 1..Len(good)}
    ELSE IF parser = "json" /\ content.fmt = "json" /\ IsSome(content.json)
    THEN LET modules == BeforeMalformed(Val(content.json))
         IN  UNION {{modules[m][k].path : k \in 1..Len(modules[m])} : m \in 1..Len(modules)}
    ELSE {}

\* C30: after a parse that failed, the store holds a record for every file
\* the report described before the point of failure, with the data of the
\* report, and no record is added for what follows that point; the records
\* of all other files are as before the parse; the overall coverage is the
\* mean over this store
C30_FailedParseKeepsPrefix ==
    (/\ IsSome(parsedFile)
     /\ parseCoverageFile(priorCoverage, Val(parsedFile).name, Val(parsedFormat),
                           Val(parsedFile).content).logged) =>
        LET content == Val(parsedFile).content
            parser == ParserOf(Val(parsedFormat), Val(parsedFile).name)
            described == DescribedBeforeFailure(parser, content)
        IN  /\ MapKeys(coverageData) = MapKeys(priorCoverage) \cup described
            /\ \A path \in MapKeys(priorCoverage) \ described :
                   MapGet(coverageData, path) = MapGet(priorCoverage, path)
            /\ \A path \in described :
                   \E k \in 1..Len(LastUpserts) :
                       MapGet(coverageData, path) = Some(LastUpserts[k])
            /\ LET recs == MapValues(coverageData)
                   mean == getOverallCoverage(coverageData)
               IN  Len(recs) > 0 =>
                       mean.n * Len(recs) * CommonDen(recs)
                           = ScaledSum(recs, CommonDen(recs)) * mean.d

\* the Cobertura report with a class without attributes after b.cs and
\* before a.cs was parsed on an empty store: b.cs alone is stored
C30_Witness ==
    /\ IsSome(parsedFile)
    /\ Val(parsedFile).content = XmlReportBroken
    /\ ParserOf(Val(parsedFormat), Val(parsedFile).name) = "cobertura"
    /\ priorCoverage = <<>>
    /\ MapKeys(coverageData) = {<<"b.cs">>}
    /\ getOverallCoverage(coverageData) = Num(75)

---------------------------------------------------------------------------
(* Properties of a failed runTestsForProject                               *)

\* C26: a step in which runTestsForProject ends because dotnet test failed
\* returns the empty sequence, parses nothing, leaves the stored sequence of
\* every project, the summary last notified and the status bar as they
\* were, and fires no notification
C26_FailedRunLeavesStore ==
    [][ (\E r \in 1..Len(testRuns) :
             /\ Len(testRuns') = Len(testRuns)
             /\ testRuns'[r].outcomes = Append(testRuns[r].outcomes, "failed")) =>
            /\ Val(testEvent').op = "failed"
            /\ Val(testEvent').returned = <<>>
            /\ Val(testEvent').output = <<>>
            /\ testResults' = testResults
            /\ notifiedSummary' = notifiedSummary
            /\ testStatusButton' = testStatusButton
            /\ \A r \in 1..Len(testRuns) : testRuns'[r].fired = testRuns[r].fired
            /\ UNCHANGED parseVars ]_vars

\* dotnet test for t1 has failed with test results in its output, while
\* the store holds the results of an earlier run of t1
C26_Witness ==
    /\ IsSome(testEvent)
    /\ Val(testEvent).op = "failed"
    /\ Val(testEvent).path = "t1"
    /\ Val(Val(testEvent).proc).stdout = ScenarioA
    /\ MapGet(testResults, "t1") = Some(parseTestResults(ScenarioA))
    /\ Val(testEvent).before = testResults
    /\ notifiedSummary = Some(getTestSummary(testResults))

---------------------------------------------------------------------------
(* Properties of ProjectDetector *)

\* every detectProjects invocation has returned and no quick pick is shown
DetectorAtRest ==
    /\ \A d \in 1..Len(detects) : detects[d].pc = "done"
    /\ quickPick = None

\* C27: once the calls of detectProjects, refresh, setCurrentProject and
\* selectProject made so far have returned, the current project is
\* undefined or one of the projects of the list; after a refresh that found
\* no project file or no parsable project it refers to no project that has
\* left the list.
C27_CurrentProjectInList ==
    DetectorAtRest =>
        \/ currentProject = None
        \/ \E k \in 1..Len(projects) : projects[k] = Val(currentProject)

\* what one refresh of the folder gives with no other in its way
SingleRefresh(files) ==
    ParseProjectFiles(<<>>,
        findFiles(files, Patterns[1]) \o findFiles(files, Patterns[2])
            \o findFiles(files, Patterns[3]),
        files)

\* C28: when refreshes have overlapped over a folder whose files stayed
\* the same and all of them have returned, the list holds each project
\* file at most once and is the list of a single refresh.
C28_OverlappingRefreshesAsOne ==
    ( /\ \A d \in 1..Len(detects) :
             detects[d].pc = "done" /\ detects[d].trigger \in {"command", "change"}
      /\ \E d \in 1..Len(detects) : detects[d].overlaps ) =>
        /\ \A j, k \in 1..Len(projects) : projects[j].path = projects[k].path => j = k
        /\ projects = SingleRefresh(workspace)

===========================================================================
